---- MODULE Spec2Model ----
(***************************************************************************)
(* A model of PyWindowsCMD: the netstat output parsers and derived port    *)
(* queries (src/PyWindowsCMD/netstat/__init__.py) and the taskkill filter  *)
(* builders (src/PyWindowsCMD/taskkill/parameters.py).                     *)
(*                                                                         *)
(* Text is a sequence of one-character strings.  The regular expressions   *)
(* of the source are written as syntax trees and matched by a backtracking *)
(* matcher with the priority order of Python's re module: Match returns    *)
(* every way a pattern matches at a position, most preferred first.        *)
(***************************************************************************)
EXTENDS Integers, Sequences, FiniteSets, TLC

VARIABLES
    src,         \* what the external command printed, as structured data
    cmd_output,  \* the decoded text handed to a parser
    call,        \* the operation that ran last ("" before any)
    arg,         \* its argument
    result,      \* what it returned or raised
    events,      \* what it did, in order: spawns of external processes, raises
    noted        \* a call and its result that the caller has kept for later

vars == <<src, cmd_output, call, arg, result, events, noted>>

(***************************************************************************)
(* Characters                                                              *)
(***************************************************************************)
CR == "\r"
LF == "\n"
CRLF == <<CR, LF>>

Digit == {"0", "1", "2", "3", "4", "5", "6", "7", "8", "9"}

Upper == {"A", "B", "C", "D", "E", "F", "G", "H", "I", "J", "K", "L", "M",
          "N", "O", "P", "Q", "R", "S", "T", "U", "V", "W", "X", "Y", "Z"}

Lower == {"a", "b", "c", "d", "e", "f", "g", "h", "i", "j", "k", "l", "m",
          "n", "o", "p", "q", "r", "s", "t", "u", "v", "w", "x", "y", "z"}

\* \w of Python's re on the characters that occur here
WordChar == Upper \cup Lower \cup Digit \cup {"_"}

\* \s of Python's re on the characters that occur here
SpaceChar == {" ", "\t", "\n", "\r", "\f"}

(***************************************************************************)
(* Regular expressions as syntax trees                                     *)
(***************************************************************************)
Unbounded == -1

Lit(w) == [t |-> "lit", w |-> w]
In(cs) == [t |-> "in", cs |-> cs]
NotIn(cs) == [t |-> "notin", cs |-> cs]
AnyChar == [t |-> "any"]
Cat(rs) == [t |-> "cat", rs |-> rs]
Alt(rs) == [t |-> "alt", rs |-> rs]
Rep(r, lo, hi) == [t |-> "rep", r |-> r, lo |-> lo, hi |-> hi, greedy |-> TRUE]
LazyRep(r, lo, hi) == [t |-> "rep", r |-> r, lo |-> lo, hi |-> hi, greedy |-> FALSE]
Star(r) == Rep(r, 0, Unbounded)
Plus(r) == Rep(r, 1, Unbounded)
Opt(r) == Rep(r, 0, 1)
Group(n, r) == [t |-> "group", n |-> n, r |-> r]
BeginText == [t |-> "bos"]
EndText == [t |-> "eos"]
Empty == Cat(<<>>)

NoGroups(n) == [k \in 1..n |-> <<>>]

RECURSIVE Match(_, _, _, _)
RECURSIVE Bind(_, _, _, _, _)
RECURSIVE MatchSeq(_, _, _, _)
RECURSIVE MatchAlt(_, _, _, _, _)
RECURSIVE MatchRep(_, _, _, _, _)
RECURSIVE BindRep(_, _, _, _, _, _, _)

\* Whether r matches one character and nothing else.
OneChar(r) == r.t \in {"in", "notin", "any"}

\* Whether the one-character pattern r accepts the character ch.
Accepts(r, ch) ==
    CASE r.t = "in" -> ch \in r.cs
      [] r.t = "notin" -> ch \notin r.cs
      [] r.t = "any" -> TRUE

\* The number of characters of s from position i on that the one-character
\* pattern r accepts in a row.
Run(r, s, i) ==
    LET stop == CHOOSE j \in i..(Len(s) + 1) :
                    /\ j = Len(s) + 1 \/ ~Accepts(r, s[j])
                    /\ \A k \in i..(j - 1) : Accepts(r, s[k])
    IN  stop - i

\* The continuations through r of the partial matches xs[lo..hi], in order.
Bind(r, s, xs, lo, hi) ==
    IF lo > hi THEN <<>>
    ELSE IF lo = hi THEN Match(r, s, xs[lo].p, xs[lo].c)
    ELSE LET mid == (lo + hi) \div 2
         IN  Bind(r, s, xs, lo, mid) \o Bind(r, s, xs, mid + 1, hi)

MatchSeq(rs, k, s, xs) ==
    IF k > Len(rs) \/ xs = <<>> THEN xs
    ELSE MatchSeq(rs, k + 1, s, Bind(rs[k], s, xs, 1, Len(xs)))

MatchAlt(rs, k, s, i, c) ==
    IF k > Len(rs) THEN <<>>
    ELSE Match(rs[k], s, i, c) \o MatchAlt(rs, k + 1, s, i, c)

\* One more iteration from each of xs[lo..hi] that consumed something since i.
BindRep(q, n, s, i, xs, lo, hi) ==
    IF lo > hi THEN <<>>
    ELSE IF lo = hi
         THEN (IF xs[lo].p > i THEN MatchRep(q, n, s, xs[lo].p, xs[lo].c) ELSE <<>>)
    ELSE LET mid == (lo + hi) \div 2
         IN  BindRep(q, n, s, i, xs, lo, mid) \o BindRep(q, n, s, i, xs, mid + 1, hi)

\* q.r repeated, n iterations done so far, standing at i.  A repeated
\* one-character pattern is matched in one step: it may stop after any count
\* of characters between q.lo and the length of the run (or q.hi), the longest
\* first when greedy, the shortest first when lazy.
MatchRep(q, n, s, i, c) ==
    IF OneChar(q.r)
    THEN LET run == Run(q.r, s, i)
             top == IF q.hi = Unbounded \/ run < q.hi THEN run ELSE q.hi
             cnt == IF top >= q.lo THEN top - q.lo + 1 ELSE 0
         IN  [k \in 1..cnt |->
                [p |-> i + (IF q.greedy THEN top - k + 1 ELSE q.lo + k - 1), c |-> c]]
    ELSE LET more == IF q.hi = Unbounded \/ n < q.hi
                     THEN LET xs == Match(q.r, s, i, c)
                          IN  BindRep(q, n + 1, s, i, xs, 1, Len(xs))
                     ELSE <<>>
             stop == IF n >= q.lo THEN <<[p |-> i, c |-> c]>> ELSE <<>>
         IN  IF q.greedy THEN more \o stop ELSE stop \o more

\* Every match of r in s starting at position i, with the groups c captured
\* so far: a sequence of [p: the position after the match, c: the groups],
\* in the order in which Python's backtracking tries them.
Match(r, s, i, c) ==
    CASE r.t = "lit" ->
           IF /\ i + Len(r.w) - 1 <= Len(s)
              /\ \A k \in 1..Len(r.w) : s[i + k - 1] = r.w[k]
           THEN <<[p |-> i + Len(r.w), c |-> c]>> ELSE <<>>
      [] OneChar(r) ->
           IF i <= Len(s) /\ Accepts(r, s[i])
           THEN <<[p |-> i + 1, c |-> c]>> ELSE <<>>
      [] r.t = "bos" -> IF i = 1 THEN <<[p |-> i, c |-> c]>> ELSE <<>>
      [] r.t = "eos" -> IF i = Len(s) + 1 THEN <<[p |-> i, c |-> c]>> ELSE <<>>
      [] r.t = "cat" -> MatchSeq(r.rs, 1, s, <<[p |-> i, c |-> c]>>)
      [] r.t = "alt" -> MatchAlt(r.rs, 1, s, i, c)
      [] r.t = "rep" -> MatchRep(r, 0, s, i, c)
      [] r.t = "group" ->
           LET xs == Match(r.r, s, i, c)
           IN  [k \in 1..Len(xs) |->
                  [p |-> xs[k].p,
                   c |-> [xs[k].c EXCEPT ![r.n] = SubSeq(s, i, xs[k].p - 1)]]]

\* The positions of s at which r matches.
Starts(r, ng, s) == {j \in 1..(Len(s) + 1) : Match(r, s, j, NoGroups(ng)) # <<>>}

\* the match Python takes at a position where r matches: the preferred one
Found(start, m) == [found |-> TRUE, start |-> start, p |-> m.p, c |-> m.c]

NotFound(ng) == [found |-> FALSE, start |-> 0, p |-> 0, c |-> NoGroups(ng)]

\* the least of the positions starts from i on
Leftmost(starts, i) ==
    CHOOSE j \in starts : j >= i /\ \A k \in starts : k >= i => j <= k

MatchAt(r, ng, s, j) == Found(j, Match(r, s, j, NoGroups(ng))[1])

\* The leftmost match among those starting at one of the positions starts,
\* from i on: [found, start, p: the position after it, c: its groups].
FirstOf(starts, r, ng, s, i) ==
    IF \E j \in starts : j >= i
    THEN MatchAt(r, ng, s, Leftmost(starts, i))
    ELSE NotFound(ng)

\* re.search(r, s)
Search(r, ng, s) == FirstOf(Starts(r, ng, s), r, ng, s, 1)

\* the groups of m and of the matches after it
RECURSIVE FindAllFrom(_, _, _, _, _)
FindAllFrom(starts, r, ng, s, m) ==
    IF ~m.found THEN <<>>
    ELSE <<m.c>> \o FindAllFrom(starts, r, ng, s,
                                FirstOf(starts, r, ng, s,
                                        IF m.p > m.start THEN m.p ELSE m.p + 1))

\* the groups of the non-overlapping matches of r that start at one of starts
FindAllAt(starts, r, ng, s) == FindAllFrom(starts, r, ng, s, FirstOf(starts, r, ng, s, 1))

\* re.findall(r, s): the groups of each non-overlapping match, left to right
FindAll(r, ng, s) == FindAllAt(Starts(r, ng, s), r, ng, s)

(***************************************************************************)
(* The words of the patterns and of netstat's output, spelled as text      *)
(***************************************************************************)
SP == <<" ">>
w_TCP == <<"T", "C", "P">>
w_UDP == <<"U", "D", "P">>
w_Statistics == <<"S", "t", "a", "t", "i", "s", "t", "i", "c", "s">>
w_for == <<"f", "o", "r">>
w_IPv4 == <<"I", "P", "v", "4">>
w_IPv6 == <<"I", "P", "v", "6">>
w_ICMPv4 == <<"I", "C", "M", "P", "v", "4">>
w_ICMPv6 == <<"I", "C", "M", "P", "v", "6">>
w_Route == <<"R", "o", "u", "t", "e">>
w_Table == <<"T", "a", "b", "l", "e">>
w_Interface == <<"I", "n", "t", "e", "r", "f", "a", "c", "e">>
w_List == <<"L", "i", "s", "t">>
w_Active == <<"A", "c", "t", "i", "v", "e">>
w_Persistent == <<"P", "e", "r", "s", "i", "s", "t", "e", "n", "t">>
w_Routes == <<"R", "o", "u", "t", "e", "s">>
w_On == <<"O", "n">>
w_link == <<"l", "i", "n", "k">>
w_Opens == <<"O", "p", "e", "n", "s">>
w_Proto == <<"P", "r", "o", "t", "o">>
w_Local == <<"L", "o", "c", "a", "l">>
w_Foreign == <<"F", "o", "r", "e", "i", "g", "n">>
w_Address == <<"A", "d", "d", "r", "e", "s", "s">>
w_State == <<"S", "t", "a", "t", "e">>
w_PID == <<"P", "I", "D">>
w_Time == <<"T", "i", "m", "e">>
w_in == <<"i", "n">>
w_ms == <<"m", "s">>
w_Offload == <<"O", "f", "f", "l", "o", "a", "d">>
w_Template == <<"T", "e", "m", "p", "l", "a", "t", "e">>
w_Component == <<"C", "o", "m", "p", "o", "n", "e", "n", "t">>
w_Executable == <<"E", "x", "e", "c", "u", "t", "a", "b", "l", "e">>
w_TCPv6 == <<"T", "C", "P", "v", "6">>
w_UDPv6 == <<"U", "D", "P", "v", "6">>
w_LISTENING == <<"L", "I", "S", "T", "E", "N", "I", "N", "G">>
w_ESTABLISHED == <<"E", "S", "T", "A", "B", "L", "I", "S", "H", "E", "D">>
w_CLOSE_WAIT == <<"C", "L", "O", "S", "E", "_", "W", "A", "I", "T">>
w_TIME_WAIT == <<"T", "I", "M", "E", "_", "W", "A", "I", "T">>
w_FIN_WAIT1 == <<"F", "I", "N", "_", "W", "A", "I", "T", "1">>
w_FIN_WAIT2 == <<"F", "I", "N", "_", "W", "A", "I", "T", "2">>
w_BOUND == <<"B", "O", "U", "N", "D">>
w_InHost == <<"I", "n", "H", "o", "s", "t">>
w_Not == <<"N", "o", "t">>
w_Applicable == <<"A", "p", "p", "l", "i", "c", "a", "b", "l", "e">>
w_Internet == <<"I", "n", "t", "e", "r", "n", "e", "t">>
w_Connections == <<"C", "o", "n", "n", "e", "c", "t", "i", "o", "n", "s">>

(***************************************************************************)
(* Numbers                                                                 *)
(***************************************************************************)
DigitSeq == <<"0", "1", "2", "3", "4", "5", "6", "7", "8", "9">>

DigitValue(ch) == CHOOSE d \in 0..9 : DigitSeq[d + 1] = ch

RECURSIVE int(_)
\* int(text) of Python on a non-empty run of ASCII digits
int(ds) ==
    IF Len(ds) = 0 THEN 0
    ELSE 10 * int(SubSeq(ds, 1, Len(ds) - 1)) + DigitValue(ds[Len(ds)])

(***************************************************************************)
(* Results: a pandas.DataFrame is its column names and its rows in order;  *)
(* a dict of them is a record of kind "dict"; a raised exception is its     *)
(* class and its message, in parts.                                        *)
(***************************************************************************)
DataFrame(rows, columns) == [kind |-> "DataFrame", columns |-> columns, rows |-> rows]

NetstatOutputError(what) ==
    [kind |-> "NetstatOutputError", msg |-> <<"No ", what, " found in the cmd_output.">>]

\* for i in range(len(rows)): rows[i] = list(rows[i]); rows[i][k] = int(rows[i][k])
IntColumns(rows, ks) ==
    [i \in 1..Len(rows) |->
        [k \in 1..Len(rows[i]) |-> IF k \in ks THEN int(rows[i][k]) ELSE rows[i][k]]]

(***************************************************************************)
(* The statistics sections of "netstat /s"                                 *)
(***************************************************************************)
label_tcp_ipv6 == w_TCP \o SP \o w_Statistics \o SP \o w_for \o SP \o w_IPv6
label_tcp_ipv4 == w_TCP \o SP \o w_Statistics \o SP \o w_for \o SP \o w_IPv4
label_udp_ipv6 == w_UDP \o SP \o w_Statistics \o SP \o w_for \o SP \o w_IPv6
label_udp_ipv4 == w_UDP \o SP \o w_Statistics \o SP \o w_for \o SP \o w_IPv4
label_icmpv6 == w_ICMPv6 \o SP \o w_Statistics
label_icmpv4 == w_ICMPv4 \o SP \o w_Statistics
label_ipv6 == w_IPv6 \o SP \o w_Statistics
label_ipv4 == w_IPv4 \o SP \o w_Statistics

\* r"<label>(?:\r\n)+(.+?)(?:(?:\r\n){2}|\Z)" with re.DOTALL
statistics_table_re(label) ==
    Cat(<<Lit(label),
          Plus(Lit(CRLF)),
          Group(1, LazyRep(AnyChar, 1, Unbounded)),
          Alt(<<Rep(Lit(CRLF), 2, 2), EndText>>)>>)

\* a variant that takes a counter's name to be one word: r"(\w+)\s{2,}= (\d+)"
counter_row_re_one_word ==
    Cat(<<Group(1, Plus(In(WordChar))),
          Rep(In(SpaceChar), 2, Unbounded),
          Lit(<<"=", " ">>),
          Group(2, Plus(In(Digit)))>>)

\* r"(\w+(?: \w+)*)\s{2,}= (\d+)"
counter_row_re ==
    Cat(<<Group(1, Cat(<<Plus(In(WordChar)),
                         Star(Cat(<<Lit(SP), Plus(In(WordChar))>>))>>)),
          Rep(In(SpaceChar), 2, Unbounded),
          Lit(<<"=", " ">>),
          Group(2, Plus(In(Digit)))>>)

\* r"(\w+(?: \w+)*)\s{2,}(\d+)\s{2,}(\d+)"
dual_counter_row_re ==
    Cat(<<Group(1, Cat(<<Plus(In(WordChar)),
                         Star(Cat(<<Lit(SP), Plus(In(WordChar))>>))>>)),
          Rep(In(SpaceChar), 2, Unbounded),
          Group(2, Plus(In(Digit))),
          Rep(In(SpaceChar), 2, Unbounded),
          Group(3, Plus(In(Digit)))>>)

read_tcp_ipv6_statistics(out) ==
    LET tcp_ipv6_statistics_table == Search(statistics_table_re(label_tcp_ipv6), 1, out)
    IN  IF tcp_ipv6_statistics_table.found
        THEN DataFrame(IntColumns(FindAll(counter_row_re, 2, tcp_ipv6_statistics_table.c[1]), {2}),
                       <<"Header", "Value">>)
        ELSE NetstatOutputError("TCP statistics for IPv6")

read_tcp_ipv4_statistics(out) ==
    LET tcp_ipv4_statistics_table == Search(statistics_table_re(label_tcp_ipv4), 1, out)
    IN  IF tcp_ipv4_statistics_table.found
        THEN DataFrame(IntColumns(FindAll(counter_row_re, 2, tcp_ipv4_statistics_table.c[1]), {2}),
                       <<"Header", "Value">>)
        ELSE NetstatOutputError("TCP statistics for IPv4")

read_udp_ipv6_statistics(out) ==
    LET udp_ipv6_statistics_table == Search(statistics_table_re(label_udp_ipv6), 1, out)
    IN  IF udp_ipv6_statistics_table.found
        THEN DataFrame(IntColumns(FindAll(counter_row_re, 2, udp_ipv6_statistics_table.c[1]), {2}),
                       <<"Header", "Value">>)
        ELSE NetstatOutputError("UDP statistics for IPv6")

\* a variant that answers a text without the section with an empty table
read_udp_ipv4_statistics_or_empty(out) ==
    LET udp_ipv4_statistics_table == Search(statistics_table_re(label_udp_ipv4), 1, out)
    IN  IF udp_ipv4_statistics_table.found
        THEN DataFrame(IntColumns(FindAll(counter_row_re, 2, udp_ipv4_statistics_table.c[1]), {2}),
                       <<"Header", "Value">>)
        ELSE DataFrame(<<>>, <<"Header", "Value">>)

read_udp_ipv4_statistics(out) ==
    LET udp_ipv4_statistics_table == Search(statistics_table_re(label_udp_ipv4), 1, out)
    IN  IF udp_ipv4_statistics_table.found
        THEN DataFrame(IntColumns(FindAll(counter_row_re, 2, udp_ipv4_statistics_table.c[1]), {2}),
                       <<"Header", "Value">>)
        ELSE NetstatOutputError("UDP statistics for IPv4")

read_icmpv6_statistics(out) ==
    LET icmpv6_statistics_table == Search(statistics_table_re(label_icmpv6), 1, out)
    IN  IF icmpv6_statistics_table.found
        THEN DataFrame(IntColumns(FindAll(dual_counter_row_re, 3, icmpv6_statistics_table.c[1]), {2, 3}),
                       <<"Header", "Received", "Sent">>)
        ELSE NetstatOutputError("ICMPv6 statistics")

read_icmpv4_statistics(out) ==
    LET icmpv4_statistics_table == Search(statistics_table_re(label_icmpv4), 1, out)
    IN  IF icmpv4_statistics_table.found
        THEN DataFrame(IntColumns(FindAll(dual_counter_row_re, 3, icmpv4_statistics_table.c[1]), {2, 3}),
                       <<"Header", "Received", "Sent">>)
        ELSE NetstatOutputError("ICMPv4 statistics")

read_ipv6_statistics(out) ==
    LET ipv6_statistics_table == Search(statistics_table_re(label_ipv6), 1, out)
    IN  IF ipv6_statistics_table.found
        THEN DataFrame(IntColumns(FindAll(counter_row_re, 2, ipv6_statistics_table.c[1]), {2}),
                       <<"Header", "Value">>)
        ELSE NetstatOutputError("IPv6 statistics")

read_ipv4_statistics(out) ==
    LET ipv4_statistics_table == Search(statistics_table_re(label_ipv4), 1, out)
    IN  IF ipv4_statistics_table.found
        THEN DataFrame(IntColumns(FindAll(counter_row_re, 2, ipv4_statistics_table.c[1]), {2}),
                       <<"Header", "Value">>)
        ELSE NetstatOutputError("IPv4 statistics")

(***************************************************************************)
(* The sections of "netstat /r"                                            *)
(***************************************************************************)
label_ipv6_route_table == w_IPv6 \o SP \o w_Route \o SP \o w_Table
label_ipv4_route_table == w_IPv4 \o SP \o w_Route \o SP \o w_Table
label_interface_list == w_Interface \o SP \o w_List
label_active_routes == w_Active \o SP \o w_Routes \o <<":">>
label_persistent_routes == w_Persistent \o SP \o w_Routes \o <<":">>
text_on_link == w_On \o <<"-">> \o w_link

\* ={3,}
rule_re == Rep(Lit(<<"=">>), 3, Unbounded)

\* r"<label>(?:\r\n)+={3,}\s+Active Routes:(?:\r\n)+(.+?)(?:={3,}|\Z)\s+Persistent Routes:(?:\r\n)+(.+?)(?:={3,}|\Z)"
\* with re.DOTALL
routing_table_re(label) ==
    Cat(<<Lit(label),
          Plus(Lit(CRLF)),
          rule_re,
          Plus(In(SpaceChar)),
          Lit(label_active_routes),
          Plus(Lit(CRLF)),
          Group(1, LazyRep(AnyChar, 1, Unbounded)),
          Alt(<<rule_re, EndText>>),
          Plus(In(SpaceChar)),
          Lit(label_persistent_routes),
          Plus(Lit(CRLF)),
          Group(2, LazyRep(AnyChar, 1, Unbounded)),
          Alt(<<rule_re, EndText>>)>>)

\* \d{1,3}\.\d{1,3}\.\d{1,3}\.\d{1,3}
dotted_quad_re ==
    Cat(<<Rep(In(Digit), 1, 3), Lit(<<".">>), Rep(In(Digit), 1, 3), Lit(<<".">>),
          Rep(In(Digit), 1, 3), Lit(<<".">>), Rep(In(Digit), 1, 3)>>)

\* r"(\d+)\s+(\d+)\s+(\S+)\s+(On-link)\s+"
ipv6_active_route_re ==
    Cat(<<Group(1, Plus(In(Digit))), Plus(In(SpaceChar)),
          Group(2, Plus(In(Digit))), Plus(In(SpaceChar)),
          Group(3, Plus(NotIn(SpaceChar))), Plus(In(SpaceChar)),
          Group(4, Lit(text_on_link)), Plus(In(SpaceChar))>>)

\* r"(quad)\s+(quad)\s+(quad|On-link)\s+(quad)\s+(\d+)\s+"
ipv4_active_route_re ==
    Cat(<<Group(1, dotted_quad_re), Plus(In(SpaceChar)),
          Group(2, dotted_quad_re), Plus(In(SpaceChar)),
          Group(3, Alt(<<dotted_quad_re, Lit(text_on_link)>>)), Plus(In(SpaceChar)),
          Group(4, dotted_quad_re), Plus(In(SpaceChar)),
          Group(5, Plus(In(Digit))), Plus(In(SpaceChar))>>)

\* r"(quad)\s+(quad)\s+(quad)\s+(\d+)\s+"
ipv4_persistent_route_re ==
    Cat(<<Group(1, dotted_quad_re), Plus(In(SpaceChar)),
          Group(2, dotted_quad_re), Plus(In(SpaceChar)),
          Group(3, dotted_quad_re), Plus(In(SpaceChar)),
          Group(4, Plus(In(Digit))), Plus(In(SpaceChar))>>)

\* r"Interface List(?:\r\n)+(.+?)(?:={3,}|\Z)" with re.DOTALL
interface_list_re ==
    Cat(<<Lit(label_interface_list),
          Plus(Lit(CRLF)),
          Group(1, LazyRep(AnyChar, 1, Unbounded)),
          Alt(<<rule_re, EndText>>)>>)

\* r"(\w+(?:(?:\.{3}| )\w+)*) \.+([\w#() -]+)\s+"
interface_row_re ==
    Cat(<<Group(1, Cat(<<Plus(In(WordChar)),
                         Star(Cat(<<Alt(<<Rep(Lit(<<".">>), 3, 3), Lit(SP)>>),
                                    Plus(In(WordChar))>>))>>)),
          Lit(SP),
          Plus(Lit(<<".">>)),
          Group(2, Plus(In(WordChar \cup {"#", "(", ")", " ", "-"}))),
          Plus(In(SpaceChar))>>)

read_ipv6_routing_table(out) ==
    LET ipv6_routing_table == Search(routing_table_re(label_ipv6_route_table), 2, out)
    IN  IF ipv6_routing_table.found
        THEN [kind |-> "dict",
              active_routes |->
                DataFrame(FindAll(ipv6_active_route_re, 4, ipv6_routing_table.c[1]),
                          <<"If", "Metric", "Network Destination", "Gateway">>),
              persistent_routes |-> DataFrame(<<>>, <<>>)]
        ELSE NetstatOutputError("IPv6 routing table")

read_ipv4_routing_table(out) ==
    LET ipv4_routing_table == Search(routing_table_re(label_ipv4_route_table), 2, out)
    IN  IF ipv4_routing_table.found
        THEN [kind |-> "dict",
              active_routes |->
                DataFrame(FindAll(ipv4_active_route_re, 5, ipv4_routing_table.c[1]),
                          <<"Network Destination", "Netmask", "Gateway", "Interface", "Metric">>),
              persistent_routes |->
                DataFrame(FindAll(ipv4_persistent_route_re, 4, ipv4_routing_table.c[2]),
                          <<"Network Address", "Netmask", "Gateway Address", "Metric">>)]
        ELSE NetstatOutputError("IPv4 routing table")

read_interface_routing_table(out) ==
    LET interface_routing_table == Search(interface_list_re, 1, out)
    IN  IF interface_routing_table.found
        THEN DataFrame(FindAll(interface_row_re, 2, interface_routing_table.c[1]),
                       <<"MAC", "Interface">>)
        ELSE NetstatOutputError("Interface List")

(***************************************************************************)
(* What netstat prints.  The external program is not part of the           *)
(* repository: its output is an input, drawn from the formats below.       *)
(***************************************************************************)
MaxRows == 2

Spaces(n) == [i \in 1..n |-> " "]

RECURSIVE Decimal(_)
\* the decimal digits of a natural number, as netstat prints a counter
Decimal(n) ==
    IF n < 10 THEN <<DigitSeq[n + 1]>>
    ELSE Decimal(n \div 10) \o <<DigitSeq[(n % 10) + 1]>>

RECURSIVE Flatten(_)
Flatten(ss) == IF ss = <<>> THEN <<>> ELSE Head(ss) \o Flatten(Tail(ss))

\* words separated by single blanks
Phrase(ws) == Flatten([i \in 1..Len(ws) |-> IF i = 1 THEN ws[i] ELSE SP \o ws[i]])

SeqsUpTo(S, n) == UNION {[1..k -> S] : k \in 0..n}

StatisticsKeys == {"IPv4", "IPv6", "ICMPv4", "ICMPv6", "TCPv4", "TCPv6", "UDPv4", "UDPv6"}
DualCounterKeys == {"ICMPv4", "ICMPv6"}

\* the label netstat prints over the section that read_per_protocol_statistics
\* files under key
SectionLabel(key) ==
    CASE key = "IPv4" -> label_ipv4
      [] key = "IPv6" -> label_ipv6
      [] key = "ICMPv4" -> label_icmpv4
      [] key = "ICMPv6" -> label_icmpv6
      [] key = "TCPv4" -> label_tcp_ipv4
      [] key = "TCPv6" -> label_tcp_ipv6
      [] key = "UDPv4" -> label_udp_ipv4
      [] key = "UDPv6" -> label_udp_ipv6

\* netstat pads a counter's name to a fixed column
CounterColumn == 14

CounterRow(header, value) ==
    [header |-> header, value |-> value, pad |-> CounterColumn - Len(Phrase(header))]

CounterRows ==
    {CounterRow(<<w_Active, w_Opens>>, 5),
     CounterRow(<<w_Opens>>, 120),
     CounterRow(<<w_Active, w_Opens>>, 120)}

\* what an ICMP line shows as its second counter
SentOf(row) == 2 * row.value

\* "  Active Opens  = 5" or, in an ICMP section, "  Active Opens  5  10"
CounterLine(key, row) ==
    Spaces(2) \o Phrase(row.header) \o Spaces(row.pad)
    \o (IF key \in DualCounterKeys
        THEN Decimal(row.value) \o Spaces(2) \o Decimal(SentOf(row))
        ELSE <<"=", " ">> \o Decimal(row.value))

\* a section: its label, gap line breaks, its lines
SectionText(sec) ==
    SectionLabel(sec.label)
    \o Flatten([i \in 1..sec.gap |-> CRLF])
    \o Flatten([i \in 1..Len(sec.rows) |-> CounterLine(sec.label, sec.rows[i]) \o CRLF])

\* the sections, a blank line after each but the last; after the last one a
\* blank line ("blank") or the end of the text ("eot")
StatisticsText(s) ==
    LET body == Flatten([i \in 1..Len(s.sections) |->
                           SectionText(s.sections[i])
                           \o (IF i < Len(s.sections) THEN CRLF ELSE <<>>)])
    IN  IF s.closed = "blank" THEN body \o CRLF ELSE body

\* the sections whose lines are varied: one of single counters, one of pairs
VariedKeys == {"TCPv4", "ICMPv4"}

FirstSections ==
    [label : VariedKeys, gap : {1, 2}, rows : SeqsUpTo(CounterRows, MaxRows)]
    \cup {[label |-> key, gap |-> 2,
           rows |-> <<CounterRow(<<w_Active, w_Opens>>, 5), CounterRow(<<w_Opens>>, 120)>>] :
             key \in StatisticsKeys \ VariedKeys}

\* the section that may follow the first one
NextSections ==
    {[label |-> "UDPv4", gap |-> 2, rows |-> <<CounterRow(<<w_Opens>>, 7)>>]}

\* the text of section 8's scenario:
\* "TCP Statistics for IPv4\r\n  Active Opens                    = 5\r\n\r\n"
ScenarioSource ==
    [kind |-> "statistics",
     sections |-> <<[label |-> "TCPv4", gap |-> 1,
                     rows |-> <<[header |-> <<w_Active, w_Opens>>, value |-> 5, pad |-> 20]>>]>>,
     closed |-> "blank"]

StatisticsSources ==
    {[kind |-> "statistics", sections |-> <<f>>, closed |-> c] :
        f \in FirstSections, c \in {"blank", "eot"}}
    \cup {[kind |-> "statistics", sections |-> <<f, n>>, closed |-> "eot"] :
            f \in FirstSections, n \in NextSections}
    \cup {ScenarioSource}

\* the line of "=" signs netstat rules its routing sections with
RuleLine == [i \in 1..5 |-> "="] \o CRLF

\* " 1...aa bb ......Eth #2"
InterfaceLine ==
    <<" ", "1", ".", ".", ".", "a", "a", " ", "b", "b", " ",
      ".", ".", ".", ".", ".", ".", "E", "t", "h", " ", "#", "2">>

\* " 1.2.3.4 5.6.7.8 On-link 1.1.1.1 5"
IPv4ActiveLine ==
    <<" ", "1", ".", "2", ".", "3", ".", "4", " ", "5", ".", "6", ".", "7", ".", "8", " ">>
    \o text_on_link \o <<" ", "1", ".", "1", ".", "1", ".", "1", " ", "5">>

\* " 1.2.3.4 1.1.1.1 0.0.0.0 7"
IPv4PersistentLine ==
    <<" ", "1", ".", "2", ".", "3", ".", "4", " ", "1", ".", "1", ".", "1", ".", "1", " ",
      "0", ".", "0", ".", "0", ".", "0", " ", "7">>

\* " 1 331 ::1/128 On-link"
IPv6ActiveLine ==
    <<" ", "1", " ", "3", "3", "1", " ", ":", ":", "1", "/", "1", "2", "8", " ">> \o text_on_link

NoneLine == <<" ", " ", "N", "o", "n", "e">>

\* the output of "netstat /r" with the sections r names: the interface list,
\* the IPv4 route table, the IPv6 route table with or without its
\* "Persistent Routes:" part
RoutingText(r) ==
    RuleLine
    \o (IF r.interfaces
        THEN label_interface_list \o CRLF \o InterfaceLine \o CRLF \o RuleLine \o CRLF
        ELSE <<>>)
    \o (IF r.ipv4
        THEN label_ipv4_route_table \o CRLF \o RuleLine
             \o label_active_routes \o CRLF \o IPv4ActiveLine \o CRLF \o RuleLine
             \o label_persistent_routes \o CRLF \o IPv4PersistentLine \o CRLF \o RuleLine \o CRLF
        ELSE <<>>)
    \o (IF r.ipv6
        THEN label_ipv6_route_table \o CRLF \o RuleLine
             \o label_active_routes \o CRLF \o IPv6ActiveLine \o CRLF \o RuleLine
             \o (IF r.ipv6_persistent
                 THEN label_persistent_routes \o CRLF \o NoneLine \o CRLF
                 ELSE <<>>)
        ELSE <<>>)

RoutingSources ==
    [kind : {"routing"}, interfaces : BOOLEAN, ipv4 : BOOLEAN, ipv6 : BOOLEAN,
     ipv6_persistent : BOOLEAN]

SourceText(s) ==
    CASE s.kind = "statistics" -> StatisticsText(s)
      [] s.kind = "routing" -> RoutingText(s)

(***************************************************************************)
(* The parsers as operations: each is handed the text netstat printed and  *)
(* returns a table or raises.                                              *)
(***************************************************************************)
Raised(r) ==
    CASE r.kind = "NetstatOutputError" -> <<"raise NetstatOutputError">>
      [] r.kind = "ValueError" -> <<"raise ValueError">>
      [] r.kind = "IndexError" -> <<"raise IndexError">>
      [] r.kind = "KeyError" -> <<"raise KeyError">>
      [] r.kind = "WrongCommandLineParameter" -> <<"raise WrongCommandLineParameter">>
      [] OTHER -> <<>>

\* a parser that keeps its rows in a list shared by all calls: the rows of
\* the call the caller noted come back in front of the rows of this one
Parse_appending(name, r) ==
    /\ call = ""
    /\ call' = name
    /\ arg' = "cmd_output"
    /\ result' = IF noted.kind = "call" /\ noted.result.kind = "DataFrame"
                     /\ r.kind = "DataFrame"
                  THEN [r EXCEPT !.rows = noted.result.rows \o r.rows]
                  ELSE r
    /\ events' = Raised(r)
    /\ UNCHANGED <<src, cmd_output, noted>>

\* Calls are synchronous: the caller makes one when it holds no result.
Parse(name, r) ==
    /\ call = ""
    /\ call' = name
    /\ arg' = "cmd_output"
    /\ result' = r
    /\ events' = Raised(r)
    /\ UNCHANGED <<src, cmd_output, noted>>

Read_tcp_ipv6_statistics == Parse("read_tcp_ipv6_statistics", read_tcp_ipv6_statistics(cmd_output))
Read_tcp_ipv4_statistics == Parse("read_tcp_ipv4_statistics", read_tcp_ipv4_statistics(cmd_output))
Read_udp_ipv6_statistics == Parse("read_udp_ipv6_statistics", read_udp_ipv6_statistics(cmd_output))
Read_udp_ipv4_statistics == Parse("read_udp_ipv4_statistics", read_udp_ipv4_statistics(cmd_output))
Read_icmpv6_statistics == Parse("read_icmpv6_statistics", read_icmpv6_statistics(cmd_output))
Read_icmpv4_statistics == Parse("read_icmpv4_statistics", read_icmpv4_statistics(cmd_output))
Read_ipv6_statistics == Parse("read_ipv6_statistics", read_ipv6_statistics(cmd_output))
Read_ipv4_statistics == Parse("read_ipv4_statistics", read_ipv4_statistics(cmd_output))
Read_ipv6_routing_table == Parse("read_ipv6_routing_table", read_ipv6_routing_table(cmd_output))
Read_ipv4_routing_table == Parse("read_ipv4_routing_table", read_ipv4_routing_table(cmd_output))
Read_interface_routing_table == Parse("read_interface_routing_table", read_interface_routing_table(cmd_output))

NoCall ==
    /\ call = ""
    /\ arg = ""
    /\ result = [kind |-> "none"]
    /\ events = <<>>
    /\ noted = [kind |-> "none"]

\* The caller drops what the call returned or raised; nothing of the call
\* is kept, the functions hold no state.
Discard ==
    /\ call # ""
    /\ call' = ""
    /\ arg' = ""
    /\ result' = [kind |-> "none"]
    /\ events' = <<>>
    /\ UNCHANGED <<src, cmd_output, noted>>

InitSections ==
    /\ src \in StatisticsSources \cup RoutingSources
    /\ cmd_output = SourceText(src)
    /\ NoCall

NextParse ==
    \/ Discard
    \/ Read_tcp_ipv6_statistics
    \/ Read_tcp_ipv4_statistics
    \/ Read_udp_ipv6_statistics
    \/ Read_udp_ipv4_statistics
    \/ Read_icmpv6_statistics
    \/ Read_icmpv4_statistics
    \/ Read_ipv6_statistics
    \/ Read_ipv4_statistics
    \/ Read_ipv6_routing_table
    \/ Read_ipv4_routing_table
    \/ Read_interface_routing_table

\* the labelled-section parsers on the outputs of "netstat /s" and "netstat /r"
SpecSections == InitSections /\ [][NextParse]_vars

(***************************************************************************)
(* Properties of the labelled-section parsers.                             *)
(***************************************************************************)
\* w occurs in text
Contains(text, w) ==
    \E i \in 1..(Len(text) - Len(w) + 1) : SubSeq(text, i, i + Len(w) - 1) = w

\* per labelled parser: the label of the section it is asked for, and the
\* name its error gives that section
RequestedSection ==
    [read_tcp_ipv6_statistics |-> [label |-> label_tcp_ipv6, named |-> "TCP statistics for IPv6"],
     read_tcp_ipv4_statistics |-> [label |-> label_tcp_ipv4, named |-> "TCP statistics for IPv4"],
     read_udp_ipv6_statistics |-> [label |-> label_udp_ipv6, named |-> "UDP statistics for IPv6"],
     read_udp_ipv4_statistics |-> [label |-> label_udp_ipv4, named |-> "UDP statistics for IPv4"],
     read_icmpv6_statistics |-> [label |-> label_icmpv6, named |-> "ICMPv6 statistics"],
     read_icmpv4_statistics |-> [label |-> label_icmpv4, named |-> "ICMPv4 statistics"],
     read_ipv6_statistics |-> [label |-> label_ipv6, named |-> "IPv6 statistics"],
     read_ipv4_statistics |-> [label |-> label_ipv4, named |-> "IPv4 statistics"],
     read_ipv6_routing_table |-> [label |-> label_ipv6_route_table, named |-> "IPv6 routing table"],
     read_ipv4_routing_table |-> [label |-> label_ipv4_route_table, named |-> "IPv4 routing table"],
     read_interface_routing_table |-> [label |-> label_interface_list, named |-> "Interface List"]]

LabelledParsers == DOMAIN RequestedSection

SectionMissing ==
    /\ call \in LabelledParsers
    /\ ~Contains(cmd_output, RequestedSection[call].label)

\* C1: a labelled parser handed a text that does not hold its section's
\* label returns no table: it raises NetstatOutputError, and the message
\* names the section the parser was asked for, a name no other parser uses.
C1_MissingSectionRaises ==
    SectionMissing =>
        /\ result.kind = "NetstatOutputError"
        /\ result.msg[2] = RequestedSection[call].named
        /\ events = <<"raise NetstatOutputError">>
        /\ \A other \in LabelledParsers \ {call} :
               RequestedSection[other].named # RequestedSection[call].named

\* a text with other sections in it, and not the one asked for
C1_Witness ==
    /\ SectionMissing
    /\ call = "read_udp_ipv4_statistics"
    /\ src.kind = "statistics"
    /\ Len(src.sections[1].rows) > 0
    /\ result.kind = "NetstatOutputError"

\* the parser of the section netstat prints under key
ParserOf(key) ==
    CASE key = "IPv4" -> "read_ipv4_statistics"
      [] key = "IPv6" -> "read_ipv6_statistics"
      [] key = "ICMPv4" -> "read_icmpv4_statistics"
      [] key = "ICMPv6" -> "read_icmpv6_statistics"
      [] key = "TCPv4" -> "read_tcp_ipv4_statistics"
      [] key = "TCPv6" -> "read_tcp_ipv6_statistics"
      [] key = "UDPv4" -> "read_udp_ipv4_statistics"
      [] key = "UDPv6" -> "read_udp_ipv6_statistics"

\* the table that shows a section's lines as they were printed
TableOf(sec) ==
    IF sec.label \in DualCounterKeys
    THEN DataFrame([i \in 1..Len(sec.rows) |->
                      <<Phrase(sec.rows[i].header), sec.rows[i].value, SentOf(sec.rows[i])>>],
                   <<"Header", "Received", "Sent">>)
    ELSE DataFrame([i \in 1..Len(sec.rows) |->
                      <<Phrase(sec.rows[i].header), sec.rows[i].value>>],
                   <<"Header", "Value">>)

\* the call reads section k of the text, the first one under its label
ReadsSection(k) ==
    /\ src.kind = "statistics"
    /\ k \in 1..Len(src.sections)
    /\ call = ParserOf(src.sections[k].label)
    /\ \A j \in 1..(k - 1) : src.sections[j].label # src.sections[k].label

C2_Scenario ==
    (src = ScenarioSource /\ call = "read_tcp_ipv4_statistics")
        => result = DataFrame(<<<<Phrase(<<w_Active, w_Opens>>), 5>>>>, <<"Header", "Value">>)

(***************************************************************************)
(* The connection list: read_netstat_connections_list                      *)
(***************************************************************************)
\* the characters str.splitlines breaks a line at, of those that occur here
LineBreak == {"\n", "\r", "\f"}

\* the line that ends before position i of s, and the lines after it
RECURSIVE splitlines(_)
SplitAt(s, i) ==
    <<SubSeq(s, 1, i - 1)>>
    \o splitlines(SubSeq(s, IF s[i] = CR /\ i < Len(s) /\ s[i + 1] = LF THEN i + 2 ELSE i + 1,
                         Len(s)))

\* str.splitlines()
splitlines(s) ==
    IF s = <<>> THEN <<>>
    ELSE IF \E i \in 1..Len(s) : s[i] \in LineBreak
    THEN SplitAt(s, CHOOSE i \in 1..Len(s) :
                        s[i] \in LineBreak /\ \A k \in 1..(i - 1) : s[k] \notin LineBreak)
    ELSE <<s>>

\* list(filter(None, lines)): the lines that are not empty
NonEmpty(lines) == SelectSeq(lines, LAMBDA line : line # <<>>)

\* "\n".join(lines)
JoinLines(lines) ==
    Flatten([i \in 1..Len(lines) |-> IF i = 1 THEN lines[i] ELSE <<LF>> \o lines[i]])

h_Proto == w_Proto
h_LocalAddress == Phrase(<<w_Local, w_Address>>)
h_ForeignAddress == Phrase(<<w_Foreign, w_Address>>)
h_State == w_State
h_PID == w_PID
h_TimeInState == Phrase(<<w_Time, w_in, w_State>>) \o <<" ", "(">> \o w_ms \o <<")">>
h_OffloadState == Phrase(<<w_Offload, w_State>>)
h_Template == w_Template
h_Component == w_Component
h_Executable == w_Executable

\* the headers the if/elif chain has a pattern for
KnownHeaders ==
    {h_Proto, h_LocalAddress, h_ForeignAddress, h_State, h_PID, h_TimeInState,
     h_OffloadState, h_Template}

\* r"(\w+(?: \(?\w+\)?)*)"
header_re ==
    Group(1, Cat(<<Plus(In(WordChar)),
                   Star(Cat(<<Lit(SP), Opt(Lit(<<"(">>)), Plus(In(WordChar)),
                              Opt(Lit(<<")">>))>>))>>))

\* r"\[::\]"
any_ipv6_re == Lit(<<"[", ":", ":", "]">>)

\* the pattern the chain appends for a known header, as group n
column_re(header, n) ==
    CASE header = h_Proto ->
           Group(n, Alt(<<Lit(w_TCP), Lit(w_UDP), Lit(w_TCPv6), Lit(w_UDPv6)>>))
      [] header = h_LocalAddress ->
           Group(n, Cat(<<Alt(<<dotted_quad_re, any_ipv6_re>>),
                          Lit(<<":">>), Rep(In(Digit), 1, 5)>>))
      [] header = h_ForeignAddress ->
           Group(n, Cat(<<Alt(<<dotted_quad_re, any_ipv6_re, Lit(<<"*", ":", "*">>)>>),
                          Lit(<<":">>), Rep(In(Digit), 1, 5)>>))
      [] header = h_State ->
           Group(n, Alt(<<Lit(w_LISTENING), Lit(w_ESTABLISHED), Lit(w_CLOSE_WAIT),
                          Lit(w_TIME_WAIT), Lit(w_FIN_WAIT1), Lit(w_FIN_WAIT2),
                          Lit(w_BOUND), Empty>>))
      [] header = h_PID -> Group(n, Plus(In(Digit)))
      [] header = h_TimeInState -> Group(n, Plus(In(Digit)))
      [] header = h_OffloadState -> Group(n, Alt(<<Lit(w_InHost), Empty>>))
      [] header = h_Template ->
           Group(n, Alt(<<Lit(Phrase(<<w_Not, w_Applicable>>)), Lit(w_Internet)>>))

\* regex_line: one pattern per known header, in the order of the headers
regex_line(known) == [n \in 1..Len(known) |-> column_re(known[n], n)]

\* r"\s+".join(ps)
JoinBlanks(ps) ==
    [i \in 1..(IF Len(ps) = 0 THEN 0 ELSE 2 * Len(ps) - 1) |->
        IF i % 2 = 1 THEN ps[(i + 1) \div 2] ELSE Plus(In(SpaceChar))]

\* r"\s+".join(regex_line) + r"(?:\n\s*(\w+))?(?:\n\s*\[([\w.]+)])?\n"
connection_row_re(known) ==
    Cat(JoinBlanks(regex_line(known))
        \o <<Opt(Cat(<<Lit(<<LF>>), Star(In(SpaceChar)),
                       Group(Len(known) + 1, Plus(In(WordChar)))>>)),
             Opt(Cat(<<Lit(<<LF>>), Star(In(SpaceChar)), Lit(<<"[">>),
                       Group(Len(known) + 2, Plus(In(WordChar \cup {"."}))),
                       Lit(<<"]">>)>>)),
             Lit(<<LF>>)>>)

\* the items of xs at the positions keep, in order
RECURSIVE Pick(_, _, _)
Pick(xs, keep, k) ==
    IF k > Len(xs) THEN <<>>
    ELSE (IF k \in keep THEN <<xs[k]>> ELSE <<>>) \o Pick(xs, keep, k + 1)

\* the positions of the columns that stay: an optional one stays when some
\* row has something in it
Kept(columns, rows, optional) ==
    {k \in 1..Len(columns) : k \in optional => \E j \in 1..Len(rows) : rows[j][k] # <<>>}

\* frame.drop(column) for each of the optional columns that is "" in every row
DropEmpty(columns, rows, optional) ==
    DataFrame([i \in 1..Len(rows) |-> Pick(rows[i], Kept(columns, rows, optional), 1)],
              Pick(columns, Kept(columns, rows, optional), 1))

\* pandas.DataFrame(rows, columns=headers + ["Component", "Executable"]) and
\* the two drops; pandas refuses rows that are not as wide as the columns
netstat_frame(headers, rows) ==
    IF \E i \in 1..Len(rows) : Len(rows[i]) # Len(headers) + 2
    THEN [kind |-> "ValueError"]
    ELSE DropEmpty(headers \o <<h_Component, h_Executable>>, rows,
                   {Len(headers) + 1, Len(headers) + 2})

\* the table of the rows that the pattern built for headers finds in text
connections_of(headers, text) ==
    netstat_frame(headers,
                  FindAll(connection_row_re(SelectSeq(headers, LAMBDA h : h \in KnownHeaders)),
                          Len(SelectSeq(headers, LAMBDA h : h \in KnownHeaders)) + 2,
                          text))

\* the strings re.findall returns for a pattern of one group
Strings(found) == [i \in 1..Len(found) |-> found[i][1]]

\* the body of read_netstat_connections_list from its non-empty lines on:
\* lines[1] holds the headers, lines[2:] the rows
connections_from(lines) ==
    IF Len(lines) < 2 THEN [kind |-> "IndexError"]
    ELSE connections_of(Strings(FindAll(header_re, 1, lines[2])),
                        JoinLines(SubSeq(lines, 3, Len(lines))))

read_netstat_connections_list(out) == connections_from(NonEmpty(splitlines(out)))

(***************************************************************************)
(* What netstat prints as its connection list                              *)
(***************************************************************************)
MaxConnections == 3

HeaderOrder ==
    <<h_Proto, h_LocalAddress, h_ForeignAddress, h_State, h_PID, h_TimeInState,
      h_OffloadState, h_Template>>

w_RpcSs == <<"R", "p", "c", "S", "s">>
w_svchost_exe == <<"s", "v", "c", "h", "o", "s", "t", ".", "e", "x", "e">>
text_loopback == <<"1", "2", "7", ".", "0", ".", "0", ".", "1">>
text_foreign == <<"5", ".", "6", ".", "7", ".", "8", ":", "4", "4", "3">>

\* a connection: the address and port it is bound to, its owner, and the
\* component and executable lines printed under it ("" for none)
Connection(address, port, pid, component, executable) ==
    [address |-> address, port |-> port, pid |-> pid,
     component |-> component, executable |-> executable]

\* what netstat prints of a connection under a header
Field(row, header) ==
    CASE header = h_Proto -> w_TCP
      [] header = h_LocalAddress -> row.address \o <<":">> \o Decimal(row.port)
      [] header = h_ForeignAddress -> text_foreign
      [] header = h_State -> w_LISTENING
      [] header = h_PID -> Decimal(row.pid)
      [] header = h_TimeInState -> <<"4", "5">>
      [] header = h_OffloadState -> w_InHost
      [] header = h_Template -> w_Internet

\* items, each after two blanks
Columns(items) == Flatten([i \in 1..Len(items) |-> Spaces(2) \o items[i]])

\* the line of a connection and the lines under it
ConnectionLines(row, headers) ==
    Columns([i \in 1..Len(headers) |-> Field(row, headers[i])]) \o CRLF
    \o (IF row.component = <<>> THEN <<>> ELSE Spaces(2) \o row.component \o CRLF)
    \o (IF row.executable = <<>> THEN <<>>
        ELSE <<" ", "[">> \o row.executable \o <<"]">> \o CRLF)

\* an empty line, "Active Connections", an empty line, the header line, the
\* connections
ConnectionsText(s) ==
    CRLF \o Phrase(<<w_Active, w_Connections>>) \o CRLF \o CRLF
    \o Columns(s.headers) \o CRLF
    \o Flatten([i \in 1..Len(s.rows) |-> ConnectionLines(s.rows[i], s.headers)])

\* the lines netstat may print under a connection
Extras ==
    [none |-> [component |-> <<>>, executable |-> <<>>],
     exe |-> [component |-> <<>>, executable |-> w_svchost_exe],
     both |-> [component |-> w_RpcSs, executable |-> w_svchost_exe]]

\* a header line of any known headers in netstat's order, up to
\* MaxConnections connections, all with the same kind of lines under them
ConnectionSources ==
    {[kind |-> "connections",
      headers |-> Pick(HeaderOrder, S, 1),
      rows |-> [i \in 1..n |->
                  Connection(text_loopback, 1030, 123, Extras[x].component,
                             Extras[x].executable)]] :
        S \in (SUBSET (1..Len(HeaderOrder))) \ {{}},
        n \in 0..MaxConnections,
        x \in {"none", "exe", "both"}}

Read_netstat_connections_list ==
    Parse("read_netstat_connections_list", read_netstat_connections_list(cmd_output))

InitConnections ==
    /\ src \in ConnectionSources
    /\ cmd_output = ConnectionsText(src)
    /\ NoCall

NextConnections ==
    \/ Discard
    \/ Read_netstat_connections_list

\* the connection-list parser on the outputs of "netstat"
SpecConnections == InitConnections /\ [][NextConnections]_vars

(***************************************************************************)
(* Properties of the connection-list parser                                *)
(***************************************************************************)
Range(s) == {s[i] : i \in 1..Len(s)}

ReadsConnections ==
    /\ call = "read_netstat_connections_list"
    /\ src.kind = "connections"
    /\ result.kind = "DataFrame"

\* C3: for every subset S of the known headers in the header line, the
\* columns of the table read_netstat_connections_list returns are exactly S,
\* plus Component only if some connection of the text has a component line
\* under it and Executable only if some connection has an executable line
\* under it; a Component or Executable column that is empty in every row of
\* the table, or a table of no rows, has no such column.
C3_ColumnsAreHeaders ==
    ReadsConnections =>
        /\ Range(result.columns) \ {h_Component, h_Executable} = Range(src.headers)
        /\ Len(result.columns) = Cardinality(Range(result.columns))
        /\ h_Component \in Range(result.columns) =>
               \E i \in 1..Len(src.rows) : src.rows[i].component # <<>>
        /\ h_Executable \in Range(result.columns) =>
               \E i \in 1..Len(src.rows) : src.rows[i].executable # <<>>
        /\ \A k \in 1..Len(result.columns) :
               result.columns[k] \in {h_Component, h_Executable} =>
                   \E j \in 1..Len(result.rows) : result.rows[j][k] # <<>>

(***************************************************************************)
(* The queries on the ports of localhost                                   *)
(***************************************************************************)
\* values a caller may hand over as ports_to_check
None == [type |-> "NoneType"]
py_int(n) == [type |-> "int", v |-> n]
py_str(s) == [type |-> "str", v |-> s]
py_list(items) == [type |-> "list", items |-> items]
py_set(items) == [type |-> "set", items |-> items]
py_tuple(items) == [type |-> "tuple", items |-> items]
isinstance(x, types) == x.type \in types

\* a list up to the order of its items: the set of its items and its length
list(items, len) == [kind |-> "list", items |-> items, len |-> len]
\* list(set(...)): every element once
list_of_set(S) == list(S, Cardinality(S))

ValueError(msg) == [kind |-> "ValueError", msg |-> msg]
KeyError(key) == [kind |-> "KeyError", msg |-> key]

range(a, b) == a..(b - 1)
min(S) ==
    IF S = {} THEN ValueError("min() arg is an empty sequence")
    ELSE [kind |-> "int", v |-> CHOOSE x \in S : \A y \in S : x <= y]

\* r"\A(127\.0\.0\.1|\[::]):\d+\Z"
localhost_address_re ==
    Cat(<<BeginText, Group(1, Alt(<<Lit(text_loopback), any_ipv6_re>>)),
          Lit(<<":">>), Plus(In(Digit)), EndText>>)
\* r":(\d+)"
port_re == Cat(<<Lit(<<":">>), Group(1, Plus(In(Digit)))>>)
\* r":(\d+)\Z"
last_port_re == Cat(<<Lit(<<":">>), Group(1, Plus(In(Digit))), EndText>>)

\* frame[header]: the position of the column, 0 when the frame has none
Column(frame, header) ==
    IF \E k \in 1..Len(frame.columns) : frame.columns[k] = header
    THEN CHOOSE k \in 1..Len(frame.columns) : frame.columns[k] = header
    ELSE 0

\* every row, whatever its address
every_row(rows, k) == rows

\* frame.loc[frame["Local Address"].apply(lambda address: re.search(...) is not None)]
localhost_rows(rows, k) ==
    SelectSeq(rows, LAMBDA row : Search(localhost_address_re, 1, row[k]).found)

\* int(re.search(pattern, address).group(1))
port_of(pattern, address) == int(Search(pattern, 1, address).c[1])

busy_ports_in(rows, k) ==
    list_of_set({port_of(port_re, rows[i][k]) : i \in 1..Len(rows)})

\* get_localhost_busy_ports on the table get_netstat_connections_data returns
busy_ports_of(frame) ==
    IF frame.kind # "DataFrame" THEN frame
    ELSE IF Column(frame, h_LocalAddress) = 0 THEN KeyError(h_LocalAddress)
    ELSE busy_ports_in(localhost_rows(frame.rows, Column(frame, h_LocalAddress)),
                       Column(frame, h_LocalAddress))

\* the free ports short of the last port of the range
free_ports_below_49150(busy_ports) ==
    IF busy_ports.kind # "list" THEN busy_ports
    ELSE list_of_set(range(1024, 49150) \ busy_ports.items)

\* list(set(range(1024, 49151)) - set(busy_ports))
free_ports_of(busy_ports) ==
    IF busy_ports.kind # "list" THEN busy_ports
    ELSE list_of_set(range(1024, 49151) \ busy_ports.items)

\* the ports of all rows, whatever their PID
ports_of_every_pid(rows, address, pid, k) ==
    {port_of(last_port_re, rows[i][address]) : i \in 1..Len(rows)}

\* the ports of the rows of one PID
ports_of_pid(rows, address, pid, k) ==
    {port_of(last_port_re, rows[i][address]) : i \in {j \in 1..Len(rows) : int(rows[j][pid]) = k}}

\* groupby(pandas.to_numeric(frame["PID"]))["Local Address"].apply(...).to_dict()
ports_by_pid(rows, address, pid) ==
    [kind |-> "dict",
     items |-> [k \in {int(rows[i][pid]) : i \in 1..Len(rows)} |->
                   list_of_set(ports_of_pid(rows, address, pid, k))]]

\* get_localhost_processes_with_pids on the table get_netstat_connections_data
\* returns
processes_with_pids_of(frame) ==
    IF frame.kind # "DataFrame" THEN frame
    ELSE IF Column(frame, h_LocalAddress) = 0 THEN KeyError(h_LocalAddress)
    ELSE IF Column(frame, h_PID) = 0 THEN KeyError(h_PID)
    ELSE ports_by_pid(localhost_rows(frame.rows, Column(frame, h_LocalAddress)),
                      Column(frame, h_LocalAddress), Column(frame, h_PID))

Values(items) == {items[i].v : i \in 1..Len(items)}

\* a single port handed back as it came, free or not
minimum_free_port_as_asked(ports_to_check, localhost_free_ports) ==
    IF isinstance(ports_to_check, {"int"})
    THEN [kind |-> "int", v |-> ports_to_check.v]
    ELSE min(localhost_free_ports)

\* the body of get_localhost_minimum_free_port after the free ports are there
minimum_free_port(ports_to_check, localhost_free_ports) ==
    IF isinstance(ports_to_check, {"int"}) THEN
        IF ports_to_check.v \in localhost_free_ports
        THEN [kind |-> "int", v |-> ports_to_check.v]
        ELSE min(localhost_free_ports)
    ELSE IF isinstance(ports_to_check, {"list", "set"}) THEN
        IF ~\A i \in 1..Len(ports_to_check.items) :
                isinstance(ports_to_check.items[i], {"int"})
        THEN ValueError("All ports must be int.")
        ELSE IF Values(ports_to_check.items) \cap localhost_free_ports # {}
        THEN min(Values(ports_to_check.items) \cap localhost_free_ports)
        ELSE min(localhost_free_ports)
    ELSE min(localhost_free_ports)

minimum_free_port_of(ports_to_check, free_ports) ==
    IF free_ports.kind # "list" THEN free_ports
    ELSE minimum_free_port(ports_to_check, free_ports.items)

(***************************************************************************)
(* The machine whose connections netstat lists                             *)
(***************************************************************************)
text_any_ipv4 == <<"0", ".", "0", ".", "0", ".", "0">>
text_any_ipv6 == <<"[", ":", ":", "]">>

\* a port below the range of the free ports and one above it, one port under
\* two PIDs, one port in two rows of one PID, a port bound to every address
\* of the machine
MachineConnections ==
    <<Connection(text_loopback, 135, 4, <<>>, <<>>),
      Connection(text_loopback, 1024, 4, <<>>, <<>>),
      Connection(text_any_ipv6, 1024, 123, <<>>, <<>>),
      Connection(text_loopback, 1025, 123, <<>>, <<>>),
      Connection(text_loopback, 1025, 123, <<>>, <<>>),
      Connection(text_any_ipv4, 1040, 4, <<>>, <<>>),
      Connection(text_loopback, 5000, 4, <<>>, <<>>),
      Connection(text_loopback, 49152, 4, <<>>, <<>>)>>

Machines ==
    {[kind |-> "machine", rows |-> Pick(MachineConnections, S, 1)] :
        S \in SUBSET (1..Len(MachineConnections))}

\* what the netstat process started by get_netstat_connections_data prints
\* with show_all_ports, and with show_connection_pid when asked for
netstat(machine, show_connection_pid) ==
    ConnectionsText([headers |-> <<h_Proto, h_LocalAddress, h_ForeignAddress, h_State>>
                                 \o (IF show_connection_pid THEN <<h_PID>> ELSE <<>>),
                     rows |-> machine.rows])

PortsToCheck ==
    {None, py_int(1024), py_int(5000), py_int(49151), py_str(<<"a">>),
     py_list(<<py_int(80), py_int(5000)>>),
     py_list(<<py_int(1040), py_int(9999)>>),
     py_list(<<py_int(5000), py_int(1025)>>),
     py_list(<<py_int(1040), py_str(<<"a">>)>>),
     py_set(<<py_int(1025), py_int(1030)>>),
     py_tuple(<<py_int(1040), py_int(9999)>>),
     py_tuple(<<py_int(1040), py_str(<<"a">>)>>)}

\* A query runs netstat once, then works on what it printed.
Query(name, a, out, r) ==
    /\ call = ""
    /\ call' = name
    /\ arg' = a
    /\ cmd_output' = out
    /\ result' = r
    /\ events' = <<"spawn netstat">> \o Raised(r)
    /\ UNCHANGED <<src, noted>>

Get_localhost_busy_ports ==
    Query("get_localhost_busy_ports", "", netstat(src, FALSE),
          busy_ports_of(read_netstat_connections_list(netstat(src, FALSE))))

Get_localhost_free_ports ==
    Query("get_localhost_free_ports", "", netstat(src, FALSE),
          free_ports_of(busy_ports_of(read_netstat_connections_list(netstat(src, FALSE)))))

Get_localhost_minimum_free_port ==
    \E ports_to_check \in PortsToCheck :
        Query("get_localhost_minimum_free_port", ports_to_check, netstat(src, FALSE),
              minimum_free_port_of(
                  ports_to_check,
                  free_ports_of(busy_ports_of(
                      read_netstat_connections_list(netstat(src, FALSE))))))

Get_localhost_processes_with_pids ==
    Query("get_localhost_processes_with_pids", "", netstat(src, TRUE),
          processes_with_pids_of(read_netstat_connections_list(netstat(src, TRUE))))

\* The query returns or raises; the process and its output are gone.
Return ==
    /\ call # ""
    /\ call' = ""
    /\ arg' = ""
    /\ cmd_output' = <<>>
    /\ result' = [kind |-> "none"]
    /\ events' = <<>>
    /\ UNCHANGED <<src, noted>>

InitPorts ==
    /\ src \in Machines
    /\ cmd_output = <<>>
    /\ NoCall

NextPorts ==
    \/ Return
    \/ Get_localhost_busy_ports
    \/ Get_localhost_free_ports
    \/ Get_localhost_minimum_free_port
    \/ Get_localhost_processes_with_pids

\* the port queries on a machine
SpecPorts == InitPorts /\ [][NextPorts]_vars

(***************************************************************************)
(* Properties of the port queries                                          *)
(***************************************************************************)
Least(S) == CHOOSE x \in S : \A y \in S : x <= y

\* the table the query worked on: what the process printed, parsed
ParsedTable == read_netstat_connections_list(cmd_output)

\* the free ports computed during the call
FreePorts == free_ports_of(busy_ports_of(ParsedTable)).items

\* the busy ports get_localhost_busy_ports returns for the same output
BusyPorts == busy_ports_of(ParsedTable).items

IsCollection(x) == x.type \in {"list", "set", "tuple"}

\* every candidate of ports_to_check is an integer
AllIntegers(x) ==
    \/ x.type \in {"NoneType", "int"}
    \/ IsCollection(x) /\ \A i \in 1..Len(x.items) : x.items[i].type = "int"

\* the candidate set: a single integer is the singleton, a collection the
\* set of its elements, None the empty set
Candidates(x) ==
    CASE x.type = "int" -> {x.v}
      [] IsCollection(x) -> Values(x.items)
      [] OTHER -> {}

MinimumAsked == call = "get_localhost_minimum_free_port"

\* C4: with F the free ports computed during the call and C the candidates
\* of ports_to_check, get_localhost_minimum_free_port returns min(C \cap F)
\* when some candidate is free, and min(F) otherwise.
C4_MinimumOfFreeCandidates ==
    (MinimumAsked /\ AllIntegers(arg)) =>
        result = [kind |-> "int",
                  v |-> IF Candidates(arg) \cap FreePorts # {}
                        THEN Least(Candidates(arg) \cap FreePorts)
                        ELSE Least(FreePorts)]

\* a tuple whose first candidate is free: the smallest free port is returned
\* instead of the candidate
C4_Witness ==
    /\ MinimumAsked
    /\ arg = py_tuple(<<py_int(1040), py_int(9999)>>)
    /\ 1040 \in FreePorts
    /\ result = [kind |-> "int", v |-> Least(FreePorts)]
    /\ result.v < 1040

\* C5: whenever ports_to_check is not None and one of its candidates is not
\* an integer, be it a single candidate or a list, set or tuple,
\* get_localhost_minimum_free_port raises ValueError and returns no port.
C5_NonIntegerRaises ==
    (MinimumAsked /\ arg.type # "NoneType" /\ ~AllIntegers(arg)) =>
        result.kind = "ValueError"

\* a single candidate that is no integer: a port is returned
C5_Witness ==
    /\ MinimumAsked
    /\ arg = py_str(<<"a">>)
    /\ result.kind = "int"

IsSpawn(e) == e = "spawn netstat"
IsValidationError(e) == e \in {"raise ValueError", "raise WrongCommandLineParameter"}

\* C6: in no call is an external process started before a validation error
\* of that call is raised.
C6_ValidationBeforeSpawn ==
    \A i, j \in 1..Len(events) :
        (i < j /\ IsSpawn(events[i])) => ~IsValidationError(events[j])

\* a list with a candidate that is no integer: netstat has run when the
\* ValueError is raised
C6_Witness ==
    /\ MinimumAsked
    /\ arg = py_list(<<py_int(1040), py_str(<<"a">>)>>)
    /\ result = ValueError("All ports must be int.")
    /\ events = <<"spawn netstat", "raise ValueError">>

\* C7: get_localhost_free_ports returns exactly the ports from 1024 to 49150
\* that get_localhost_busy_ports does not return for the same output, each
\* once: 1024 and 49150 when they are not busy, nothing below or above.
C7_FreePortsAreTheComplement ==
    call = "get_localhost_free_ports" =>
        \A busy \in {BusyPorts} :
            /\ result.kind = "list"
            /\ result.items = {p \in 1024..49150 : p \notin busy}
            /\ result.len = Cardinality(result.items)
            /\ \A p \in {1024, 49150} : p \notin busy => p \in result.items
            /\ \A p \in result.items : 1024 <= p /\ p <= 49150

\* 1024 and 5000 are busy, 135 is busy and below the range
C7_Witness ==
    /\ call = "get_localhost_free_ports"
    /\ {135, 1024, 5000} \subseteq BusyPorts
    /\ {1025, 49150} \subseteq result.items
    /\ {135, 1024, 5000} \cap result.items = {}

StartsWith(s, prefix) ==
    Len(s) >= Len(prefix) /\ SubSeq(s, 1, Len(prefix)) = prefix

\* the address is 127.0.0.1 or [::], followed by a colon and a port number
LoopbackBound(address) ==
    \E prefix \in {text_loopback \o <<":">>, text_any_ipv6 \o <<":">>} :
        /\ StartsWith(address, prefix)
        /\ Len(address) > Len(prefix)
        /\ \A i \in (Len(prefix) + 1)..Len(address) : address[i] \in Digit

\* the number after the last colon of the address
LocalPort(address) ==
    int(SubSeq(address,
               1 + CHOOSE i \in 1..Len(address) :
                       address[i] = ":" /\ \A j \in (i + 1)..Len(address) : address[j] # ":",
               Len(address)))

\* the rows of the table with a loopback-bound Local Address
LoopbackRows(table) ==
    {i \in 1..Len(table.rows) :
        LoopbackBound(table.rows[i][Column(table, h_LocalAddress)])}

LocalPortOf(table, i) == LocalPort(table.rows[i][Column(table, h_LocalAddress)])
PidOf(table, i) == int(table.rows[i][Column(table, h_PID)])

\* C8: get_localhost_busy_ports returns exactly the ports of the rows of the
\* parsed connection table whose Local Address is loopback-bound: each of
\* them, and no port without such a row.
C8_BusyPortsAreLoopbackPorts ==
    call = "get_localhost_busy_ports" =>
        \A table \in {ParsedTable} :
            /\ result.kind = "list"
            /\ \A i \in LoopbackRows(table) : LocalPortOf(table, i) \in result.items
            /\ \A p \in result.items :
                   \E i \in LoopbackRows(table) : LocalPortOf(table, i) = p

\* the table has rows bound to 127.0.0.1, to [::] and to 0.0.0.0; the port of
\* the last is not busy
C8_Witness ==
    /\ call = "get_localhost_busy_ports"
    /\ \A address \in {text_loopback, text_any_ipv6, text_any_ipv4} :
           \E i \in 1..Len(ParsedTable.rows) :
               StartsWith(ParsedTable.rows[i][Column(ParsedTable, h_LocalAddress)], address)
    /\ result.items = {135, 1024, 1025}

\* C9: the keys of the mapping get_localhost_processes_with_pids returns are
\* exactly the PIDs of the loopback-bound rows of the connection table; under
\* PID k are exactly the ports of the loopback-bound rows of k, each once: a
\* port of two PIDs under both, a port of several rows of one PID once.
C9_PortsByPid ==
    call = "get_localhost_processes_with_pids" =>
        \A table \in {ParsedTable} :
            /\ result.kind = "dict"
            /\ DOMAIN result.items = {PidOf(table, i) : i \in LoopbackRows(table)}
            /\ \A k \in DOMAIN result.items :
                   /\ result.items[k].kind = "list"
                   /\ result.items[k].items =
                          {LocalPortOf(table, i) :
                              i \in {j \in LoopbackRows(table) : PidOf(table, j) = k}}
                   /\ result.items[k].len = Cardinality(result.items[k].items)

\* port 1024 is under both PIDs; port 1025, in two rows of PID 123, is under
\* it once
C9_Witness ==
    /\ call = "get_localhost_processes_with_pids"
    /\ result.kind = "dict"
    /\ DOMAIN result.items = {4, 123}
    /\ 1024 \in result.items[4].items
    /\ result.items[123] = list({1024, 1025}, 2)
    /\ Cardinality({i \in LoopbackRows(ParsedTable) : LocalPortOf(ParsedTable, i) = 1025}) = 2

(***************************************************************************)
(* The builders of the taskkill filters                                    *)
(***************************************************************************)
w_WINDOWTITLE == <<"W", "I", "N", "D", "O", "W", "T", "I", "T", "L", "E">>
w_USERNAME == <<"U", "S", "E", "R", "N", "A", "M", "E">>
w_STATUS == <<"S", "T", "A", "T", "U", "S">>
w_SESSION == <<"S", "E", "S", "S", "I", "O", "N">>
w_SERVICES == <<"S", "E", "R", "V", "I", "C", "E", "S">>
w_MODULES == <<"M", "O", "D", "U", "L", "E", "S">>
w_MEMUSAGE == <<"M", "E", "M", "U", "S", "A", "G", "E">>
w_IMAGENAME == <<"I", "M", "A", "G", "E", "N", "A", "M", "E">>
w_CPUTIME == <<"C", "P", "U", "T", "I", "M", "E">>
w_RUNNING == <<"R", "U", "N", "N", "I", "N", "G">>
w_UNKNOWN == <<"U", "N", "K", "N", "O", "W", "N">>
w_eq == <<"e", "q">>
w_ne == <<"n", "e">>
w_gt == <<"g", "t">>
w_lt == <<"l", "t">>
w_ge == <<"g", "e">>
w_le == <<"l", "e">>
text_NOT_RESPONDING == <<"N", "O", "T", " ", "R", "E", "S", "P", "O", "N", "D", "I", "N", "G">>
text_Invalid == <<"I", "n", "v", "a", "l", "i", "d", " ", "'">>
text_operator_for ==
    <<"'", " ", "o", "p", "e", "r", "a", "t", "o", "r", " ", "f", "o", "r", " ">>
text_value_for == <<"'", " ", "v", "a", "l", "u", "e", " ", "f", "o", "r", " ">>
text_valid_operators ==
    <<" ", "f", "i", "l", "t", "e", "r", ".", " ", "V", "a", "l", "i", "d", " ", "o",
      "p", "e", "r", "a", "t", "o", "r", "s", " ">>
text_valid_values ==
    <<" ", "f", "i", "l", "t", "e", "r", ".", " ", "V", "a", "l", "i", "d", " ", "v",
      "a", "l", "u", "e", "s", " ">>

\* str(x) and the {x} of an f-string
str(x) == IF x.type = "int" THEN Decimal(x.v) ELSE x.v

\* repr of a list of strings: ['eq', 'ne']
list_repr(xs) ==
    <<"[">>
    \o Flatten([i \in 1..Len(xs) |->
                   (IF i = 1 THEN <<>> ELSE <<",", " ">>) \o <<"'">> \o xs[i] \o <<"'">>])
    \o <<"]">>

WrongCommandLineParameter(msg) == [kind |-> "WrongCommandLineParameter", msg |-> msg]

\* f"Invalid '{operator}' operator for NAME filter. Valid operators {[...]}"
invalid_operator(operator, name, valid) ==
    WrongCommandLineParameter(text_Invalid \o operator \o text_operator_for \o name
                              \o text_valid_operators \o list_repr(valid))

\* f"Invalid '{value}' value for NAME filter. Valid values {[...]}"
invalid_value(value, name, valid) ==
    WrongCommandLineParameter(text_Invalid \o str(value) \o text_value_for \o name
                              \o text_valid_values \o list_repr(valid))

ProcessFilter(filter_name, filter_operator, filter_value) ==
    [kind |-> "ProcessFilter", filter_name |-> filter_name,
     filter_operator |-> filter_operator, filter_value |-> filter_value]

eq_ne == <<w_eq, w_ne>>
eq_ne_gt_lt_ge_le == <<w_eq, w_ne, w_gt, w_lt, w_ge, w_le>>
statuses == <<w_RUNNING, text_NOT_RESPONDING, w_UNKNOWN>>

\* x in xs, for a list of strings
in_list(x, xs) == \E i \in 1..Len(xs) : xs[i] = x

WindowTitleProcessFilter(operator, value) ==
    IF ~in_list(operator, eq_ne) THEN invalid_operator(operator, w_WINDOWTITLE, eq_ne)
    ELSE ProcessFilter(w_WINDOWTITLE, operator, value)

UsernameProcessFilter(operator, username, domain) ==
    IF ~in_list(operator, eq_ne) THEN invalid_operator(operator, w_USERNAME, eq_ne)
    ELSE ProcessFilter(w_USERNAME, operator,
                       py_str((IF domain # <<>> THEN domain \o <<"\\">> ELSE domain)
                              \o str(username)))

\* a STATUS filter of any value
StatusProcessFilter_any_value(operator, value) ==
    IF ~in_list(operator, eq_ne) THEN invalid_operator(operator, w_STATUS, eq_ne)
    ELSE ProcessFilter(w_STATUS, operator, value)

\* the operator is looked at first, then the value
StatusProcessFilter(operator, value) ==
    IF ~in_list(operator, eq_ne) THEN invalid_operator(operator, w_STATUS, eq_ne)
    ELSE IF ~(value.type = "str" /\ in_list(value.v, statuses))
    THEN invalid_value(value, w_STATUS, statuses)
    ELSE ProcessFilter(w_STATUS, operator, value)

SessionProcessFilter(operator, value) ==
    IF ~in_list(operator, eq_ne_gt_lt_ge_le)
    THEN invalid_operator(operator, w_SESSION, eq_ne_gt_lt_ge_le)
    ELSE ProcessFilter(w_SESSION, operator, py_str(str(value)))

ServicesProcessFilter(operator, value) ==
    IF ~in_list(operator, eq_ne) THEN invalid_operator(operator, w_SERVICES, eq_ne)
    ELSE ProcessFilter(w_SERVICES, operator, value)

\* the message of the PID filter speaks of the IMAGENAME filter
PIDProcessFilter(operator, value) ==
    IF ~in_list(operator, eq_ne_gt_lt_ge_le)
    THEN invalid_operator(operator, w_IMAGENAME, eq_ne_gt_lt_ge_le)
    ELSE ProcessFilter(w_PID, operator, py_str(str(value)))

ModulesProcessFilter(operator, value) ==
    IF ~in_list(operator, eq_ne) THEN invalid_operator(operator, w_MODULES, eq_ne)
    ELSE ProcessFilter(w_MODULES, operator, value)

MemoryUsageProcessFilter(operator, value) ==
    IF ~in_list(operator, eq_ne_gt_lt_ge_le)
    THEN invalid_operator(operator, w_MEMUSAGE, eq_ne_gt_lt_ge_le)
    ELSE ProcessFilter(w_MEMUSAGE, operator, py_str(str(value)))

ImageNameProcessFilter(operator, value) ==
    IF ~in_list(operator, eq_ne) THEN invalid_operator(operator, w_IMAGENAME, eq_ne)
    ELSE ProcessFilter(w_IMAGENAME, operator, value)

CPUTimeProcessFilter(operator, hours, minutes, seconds) ==
    IF ~in_list(operator, eq_ne_gt_lt_ge_le)
    THEN invalid_operator(operator, w_CPUTIME, eq_ne_gt_lt_ge_le)
    ELSE ProcessFilter(w_CPUTIME, operator,
                       py_str(str(hours) \o <<":">> \o str(minutes) \o <<":">> \o str(seconds)))

\* f'/FI "{self.filter_name} {self.filter_operator} {self.filter_value}"'
text_FI == <<"/", "F", "I", " ", "\"">>

filter_command_bare(filter) ==
    <<"/", "F", "I", " ">> \o filter.filter_name \o SP \o filter.filter_operator \o SP
    \o str(filter.filter_value)

filter_command(filter) ==
    text_FI \o filter.filter_name \o SP \o filter.filter_operator \o SP
    \o str(filter.filter_value) \o <<"\"">>

text_U == <<"/", "U", " ">>
text_P == <<" ", "/", "P">>
text_S == <<"/", "S", " ">>

UserContext(username, domain, password) ==
    [kind |-> "UserContext", username |-> username, domain |-> domain, password |-> password]

RemoteSystem(remote_system, user_context) ==
    [kind |-> "RemoteSystem", remote_system |-> remote_system, user_context |-> user_context]

\* a user context that takes the empty password for no password
user_context_command_no_prompt(context) ==
    text_U \o (IF context.domain # <<>> THEN context.domain \o <<"\\">> ELSE <<>>)
    \o context.username
    \o (IF context.password = None \/ context.password = py_str(<<>>) THEN <<>>
        ELSE text_P \o SP \o str(context.password))

user_context_command(context) ==
    text_U \o (IF context.domain # <<>> THEN context.domain \o <<"\\">> ELSE <<>>)
    \o context.username
    \o (IF context.password = None THEN <<>>
        ELSE IF context.password = py_str(<<>>) THEN text_P
        ELSE text_P \o SP \o str(context.password))

remote_system_command(system) ==
    text_S \o system.remote_system
    \o (IF system.user_context = None THEN <<>>
        ELSE SP \o user_context_command(system.user_context))

\* object.get_command(), by the class of the object
get_command(object) ==
    CASE object.kind = "ProcessFilter" -> filter_command(object)
      [] object.kind = "UserContext" -> user_context_command(object)
      [] object.kind = "RemoteSystem" -> remote_system_command(object)

(***************************************************************************)
(* A caller building filters                                               *)
(***************************************************************************)
Operators == {w_eq, w_ne, w_gt, w_lt, w_ge, w_le, <<"E", "Q">>, <<>>}

FilterValues ==
    {py_str(w_RUNNING), py_str(text_NOT_RESPONDING), py_str(w_UNKNOWN),
     py_str(w_svchost_exe), py_int(1500)}

Domains == {<<>>, <<"C", "O", "R", "P">>}

Build(name, a, r) ==
    /\ call = ""
    /\ call' = name
    /\ arg' = a
    /\ result' = r
    /\ events' = Raised(r)
    /\ UNCHANGED <<src, cmd_output, noted>>

New_WindowTitleProcessFilter ==
    \E operator \in Operators, value \in FilterValues :
        Build("WindowTitleProcessFilter", [operator |-> operator, value |-> value],
              WindowTitleProcessFilter(operator, value))

New_UsernameProcessFilter ==
    \E operator \in Operators, username \in {py_str(w_svchost_exe)}, domain \in Domains :
        Build("UsernameProcessFilter",
              [operator |-> operator, username |-> username, domain |-> domain],
              UsernameProcessFilter(operator, username, domain))

New_StatusProcessFilter ==
    \E operator \in Operators, value \in FilterValues :
        Build("StatusProcessFilter", [operator |-> operator, value |-> value],
              StatusProcessFilter(operator, value))

New_SessionProcessFilter ==
    \E operator \in Operators, value \in FilterValues :
        Build("SessionProcessFilter", [operator |-> operator, value |-> value],
              SessionProcessFilter(operator, value))

New_ServicesProcessFilter ==
    \E operator \in Operators, value \in FilterValues :
        Build("ServicesProcessFilter", [operator |-> operator, value |-> value],
              ServicesProcessFilter(operator, value))

New_PIDProcessFilter ==
    \E operator \in Operators, value \in FilterValues :
        Build("PIDProcessFilter", [operator |-> operator, value |-> value],
              PIDProcessFilter(operator, value))

New_ModulesProcessFilter ==
    \E operator \in Operators, value \in FilterValues :
        Build("ModulesProcessFilter", [operator |-> operator, value |-> value],
              ModulesProcessFilter(operator, value))

New_MemoryUsageProcessFilter ==
    \E operator \in Operators, value \in FilterValues :
        Build("MemoryUsageProcessFilter", [operator |-> operator, value |-> value],
              MemoryUsageProcessFilter(operator, value))

New_ImageNameProcessFilter ==
    \E operator \in Operators, value \in FilterValues :
        Build("ImageNameProcessFilter", [operator |-> operator, value |-> value],
              ImageNameProcessFilter(operator, value))

New_CPUTimeProcessFilter ==
    \E operator \in Operators, seconds \in {py_int(5), py_str(<<"0", "5">>)} :
        Build("CPUTimeProcessFilter",
              [operator |-> operator, hours |-> py_int(1), minutes |-> py_int(30),
               seconds |-> seconds],
              CPUTimeProcessFilter(operator, py_int(1), py_int(30), seconds))

w_user == <<"u", "s", "e", "r">>
w_domain == <<"d", "o", "m", "a", "i", "n">>
w_server == <<"s", "e", "r", "v", "e", "r">>
w_secret == <<"s", "e", "c", "r", "e", "t">>

Passwords == {None, py_str(<<>>), py_str(w_secret)}

UserContexts ==
    {UserContext(w_user, domain, password) : domain \in {<<>>, w_domain}, password \in Passwords}

New_UserContext ==
    \E domain \in {<<>>, w_domain}, password \in Passwords :
        Build("UserContext", [username |-> w_user, domain |-> domain, password |-> password],
              UserContext(w_user, domain, password))

New_RemoteSystem ==
    \E user_context \in UserContexts \cup {None} :
        Build("RemoteSystem", [remote_system |-> w_server, user_context |-> user_context],
              RemoteSystem(w_server, user_context))

\* The caller asks the object it built for its part of the command line.
Get_command ==
    /\ result.kind \in {"ProcessFilter", "UserContext", "RemoteSystem"}
    /\ result' = [kind |-> "command", of |-> result, text |-> get_command(result)]
    /\ UNCHANGED <<src, cmd_output, call, arg, events, noted>>

InitFilters ==
    /\ src = [kind |-> "none"]
    /\ cmd_output = <<>>
    /\ NoCall

NextFilters ==
    \/ Discard
    \/ New_WindowTitleProcessFilter
    \/ New_UsernameProcessFilter
    \/ New_StatusProcessFilter
    \/ New_SessionProcessFilter
    \/ New_ServicesProcessFilter
    \/ New_PIDProcessFilter
    \/ New_ModulesProcessFilter
    \/ New_MemoryUsageProcessFilter
    \/ New_ImageNameProcessFilter
    \/ New_CPUTimeProcessFilter
    \/ New_UserContext
    \/ New_RemoteSystem
    \/ Get_command

\* the filter builders in the hands of a caller
SpecFilters == InitFilters /\ [][NextFilters]_vars

(***************************************************************************)
(* Properties of the filter builders                                       *)
(***************************************************************************)
EqualityFilters ==
    {"WindowTitleProcessFilter", "UsernameProcessFilter", "StatusProcessFilter",
     "ServicesProcessFilter", "ModulesProcessFilter", "ImageNameProcessFilter"}
OrderingFilters ==
    {"SessionProcessFilter", "PIDProcessFilter", "MemoryUsageProcessFilter",
     "CPUTimeProcessFilter"}

AllowedOperators(class) ==
    IF class \in OrderingFilters THEN {w_eq, w_ne, w_gt, w_lt, w_ge, w_le}
    ELSE {w_eq, w_ne}

AllowedStatuses == {w_RUNNING, text_NOT_RESPONDING, w_UNKNOWN}

Quoted(s) == <<"'">> \o s \o <<"'">>

\* the call raised WrongCommandLineParameter, with the rejected text and
\* every allowed one in the message
Rejects(rejected, allowed) ==
    /\ result.kind = "WrongCommandLineParameter"
    /\ events = <<"raise WrongCommandLineParameter">>
    /\ Contains(result.msg, Quoted(rejected))
    /\ \A a \in allowed : Contains(result.msg, Quoted(a))

BadStatus == call = "StatusProcessFilter" /\ str(arg.value) \notin AllowedStatuses

\* the builder returned a filter (which the caller may have asked for its
\* command since)
Built ==
    \/ result.kind = "ProcessFilter"
    \/ result.kind = "command" /\ result.of.kind = "ProcessFilter"

\* C10: a filter builder returns a filter exactly when the operator is one of
\* its class ({eq, ne}, or the six comparison operators for SESSION, PID,
\* MEMUSAGE and CPUTIME) and, for STATUS, the value is RUNNING,
\* NOT RESPONDING or UNKNOWN; otherwise it raises WrongCommandLineParameter
\* with the rejected operator (or value) and the allowed ones in the message.
C10_BuildsOrRejects ==
    call \in EqualityFilters \cup OrderingFilters =>
        IF arg.operator \notin AllowedOperators(call)
        THEN Rejects(arg.operator, AllowedOperators(call))
        ELSE IF BadStatus
        THEN Rejects(str(arg.value), AllowedStatuses)
        ELSE Built /\ events = <<>>

\* a STATUS filter with an operator of its class and a value that is none of
\* the three
C10_Witness ==
    /\ BadStatus
    /\ arg.operator = w_ne
    /\ arg.value = py_int(1500)
    /\ result.kind = "WrongCommandLineParameter"

\* the NAME of the class in its /FI string
FilterName(class) ==
    CASE class = "WindowTitleProcessFilter" -> w_WINDOWTITLE
      [] class = "UsernameProcessFilter" -> w_USERNAME
      [] class = "StatusProcessFilter" -> w_STATUS
      [] class = "SessionProcessFilter" -> w_SESSION
      [] class = "ServicesProcessFilter" -> w_SERVICES
      [] class = "PIDProcessFilter" -> w_PID
      [] class = "ModulesProcessFilter" -> w_MODULES
      [] class = "MemoryUsageProcessFilter" -> w_MEMUSAGE
      [] class = "ImageNameProcessFilter" -> w_IMAGENAME
      [] class = "CPUTimeProcessFilter" -> w_CPUTIME

\* the value of the /FI string, from what the builder was given
FilterValueText(class, given) ==
    CASE class = "UsernameProcessFilter" ->
           IF given.domain # <<>> THEN given.domain \o <<"\\">> \o str(given.username)
           ELSE str(given.username)
      [] class = "CPUTimeProcessFilter" ->
           str(given.hours) \o <<":">> \o str(given.minutes) \o <<":">> \o str(given.seconds)
      [] OTHER -> str(given.value)

CommandOfFilter ==
    /\ call \in EqualityFilters \cup OrderingFilters
    /\ result.kind = "command"

text_FI_PID_gt_1000 ==
    <<"/", "F", "I", " ", "\"", "P", "I", "D", " ", "g", "t", " ", "1", "0", "0", "0",
      "\"">>
text_FI_CPUTIME_gt_0_15_0 ==
    <<"/", "F", "I", " ", "\"", "C", "P", "U", "T", "I", "M", "E", " ", "g", "t", " ",
      "0", ":", "1", "5", ":", "0", "\"">>

PasswordPart(password) ==
    IF password = None THEN <<>>
    ELSE IF str(password) = <<>> THEN <<" ", "/", "P">>
    ELSE <<" ", "/", "P", " ">> \o str(password)

UserContextText(given) ==
    <<"/", "U", " ">>
    \o (IF given.domain # <<>> THEN given.domain \o <<"\\">> ELSE <<>>)
    \o given.username \o PasswordPart(given.password)

text_S_server_U_domain_user ==
    <<"/", "S", " ", "s", "e", "r", "v", "e", "r", " ", "/", "U", " ", "d", "o", "m",
      "a", "i", "n", "\\", "u", "s", "e", "r">>

\* C12: UserContext.get_command returns "/U ", the domain and a backslash
\* only for a non-empty domain, the username, and nothing more for password
\* None, " /P" for the empty password, " /P password" otherwise;
\* RemoteSystem.get_command returns "/S remote_system", followed by a blank
\* and the command of the user context exactly when one was given; so
\* RemoteSystem('server', UserContext('user', 'domain')) gives
\* /S server /U domain\user.
C12_ContextCommands ==
    /\ (call = "UserContext" /\ result.kind = "command") =>
           result.text = UserContextText(arg)
    /\ (call = "RemoteSystem" /\ result.kind = "command") =>
           result.text = <<"/", "S", " ">> \o arg.remote_system
                         \o (IF arg.user_context = None THEN <<>>
                             ELSE <<" ">> \o UserContextText(arg.user_context))
    /\ get_command(RemoteSystem(w_server, UserContext(w_user, w_domain, None)))
           = text_S_server_U_domain_user

\* a remote system with a user context of the empty password: the command
\* ends with /P
C12_Witness ==
    /\ call = "RemoteSystem"
    /\ result.kind = "command"
    /\ arg.user_context # None
    /\ arg.user_context.password = py_str(<<>>)
    /\ arg.user_context.domain # <<>>
    /\ SubSeq(result.text, Len(result.text) - 2, Len(result.text)) = <<" ", "/", "P">>

(***************************************************************************)
(* The retrieval functions of the statistics                               *)
(***************************************************************************)
w_IP == <<"I", "P">>
w_ICMP == <<"I", "C", "M", "P">>

\* the dict display of read_per_protocol_statistics: the eight parsers are
\* called in the order of the keys, and the first that raises ends the call
per_protocol_dict(tables) ==
    IF \E i \in 1..Len(tables) : Raised(tables[i]) # <<>>
    THEN tables[CHOOSE i \in 1..Len(tables) :
                    /\ Raised(tables[i]) # <<>>
                    /\ \A j \in 1..(i - 1) : Raised(tables[j]) = <<>>]
    ELSE [kind |-> "dict", IPv4 |-> tables[1], IPv6 |-> tables[2], ICMPv4 |-> tables[3],
          ICMPv6 |-> tables[4], TCPv4 |-> tables[5], TCPv6 |-> tables[6],
          UDPv4 |-> tables[7], UDPv6 |-> tables[8]]

read_per_protocol_statistics(out) ==
    per_protocol_dict(<<read_ipv4_statistics(out), read_ipv6_statistics(out),
                        read_icmpv4_statistics(out), read_icmpv6_statistics(out),
                        read_tcp_ipv4_statistics(out), read_tcp_ipv6_statistics(out),
                        read_udp_ipv4_statistics(out), read_udp_ipv6_statistics(out)>>)

\* the one table of protocol out of a dict of all eight
selected_of(protocol, all) ==
    IF all.kind # "dict" THEN all
    ELSE CASE protocol = py_str(w_TCP) -> all.TCPv4
           [] protocol = py_str(w_TCPv6) -> all.TCPv6
           [] protocol = py_str(w_UDP) -> all.UDPv4
           [] protocol = py_str(w_UDPv6) -> all.UDPv6
           [] protocol = py_str(w_IP) -> all.IPv4
           [] protocol = py_str(w_IPv6) -> all.IPv6
           [] protocol = py_str(w_ICMP) -> all.ICMPv4
           [] protocol = py_str(w_ICMPv6) -> all.ICMPv6
           [] OTHER -> all

\* every section parsed, then the one asked for picked
statistics_via_all(protocol, out) == selected_of(protocol, read_per_protocol_statistics(out))

\* get_per_protocol_statistics after the process has printed out; a protocol
\* that is none of the eight falls through the elif chain: None is returned
statistics_of(protocol, out) ==
    CASE protocol = None -> read_per_protocol_statistics(out)
      [] protocol = py_str(w_TCP) -> read_tcp_ipv4_statistics(out)
      [] protocol = py_str(w_TCPv6) -> read_tcp_ipv6_statistics(out)
      [] protocol = py_str(w_UDP) -> read_udp_ipv4_statistics(out)
      [] protocol = py_str(w_UDPv6) -> read_udp_ipv6_statistics(out)
      [] protocol = py_str(w_IP) -> read_ipv4_statistics(out)
      [] protocol = py_str(w_IPv6) -> read_ipv6_statistics(out)
      [] protocol = py_str(w_ICMP) -> read_icmpv4_statistics(out)
      [] protocol = py_str(w_ICMPv6) -> read_icmpv6_statistics(out)
      [] OTHER -> [kind |-> "None"]

Protocols ==
    {py_str(w_TCP), py_str(w_TCPv6), py_str(w_UDP), py_str(w_UDPv6), py_str(w_IP),
     py_str(w_IPv6), py_str(w_ICMP), py_str(w_ICMPv6)}

\* A retrieval function starts the command once and parses what it printed:
\* here the text the state holds, of the kind the command prints.
Retrieve(name, a, kind, r) ==
    /\ call = ""
    /\ src.kind = kind
    /\ call' = name
    /\ arg' = a
    /\ result' = r
    /\ events' = <<"spawn netstat">> \o Raised(r)
    /\ UNCHANGED <<src, cmd_output, noted>>

Get_per_protocol_statistics ==
    \E protocol \in Protocols \cup {None, py_str(<<"t", "c", "p">>)} :
        Retrieve("get_per_protocol_statistics", protocol, "statistics",
                 statistics_of(protocol, cmd_output))

Read_per_protocol_statistics ==
    Parse("read_per_protocol_statistics", read_per_protocol_statistics(cmd_output))

\* only the tables that could be parsed, the others left out
routing_dict_of_present(tables) ==
    [kind |-> "dict",
     present |-> {i \in 1..Len(tables) : Raised(tables[i]) = <<>>}]

\* the dict display of read_netstat_routing_tables, evaluated in the order
\* of its keys
routing_dict(tables) ==
    IF \E i \in 1..Len(tables) : Raised(tables[i]) # <<>>
    THEN tables[CHOOSE i \in 1..Len(tables) :
                    /\ Raised(tables[i]) # <<>>
                    /\ \A j \in 1..(i - 1) : Raised(tables[j]) = <<>>]
    ELSE [kind |-> "dict", interface_table |-> tables[1], ipv4_routing_table |-> tables[2],
          ipv6_routing_table |-> tables[3]]

read_netstat_routing_tables(out) ==
    routing_dict(<<read_interface_routing_table(out), read_ipv4_routing_table(out),
                   read_ipv6_routing_table(out)>>)

Read_netstat_routing_tables ==
    Parse("read_netstat_routing_tables", read_netstat_routing_tables(cmd_output))

Get_netstat_routing_data ==
    Retrieve("get_netstat_routing_data", "", "routing", read_netstat_routing_tables(cmd_output))

Get_netstat_ipv6_routing_data ==
    Retrieve("get_netstat_ipv6_routing_data", "", "routing", read_ipv6_routing_table(cmd_output))

Get_netstat_ipv4_routing_data ==
    Retrieve("get_netstat_ipv4_routing_data", "", "routing", read_ipv4_routing_table(cmd_output))

Get_netstat_interface_routing_data ==
    Retrieve("get_netstat_interface_routing_data", "", "routing",
             read_interface_routing_table(cmd_output))

\* the output of "netstat /s" in full: the eight sections in netstat's order
AllSections ==
    [kind |-> "statistics",
     sections |-> [i \in 1..8 |->
                     [label |-> <<"IPv4", "IPv6", "ICMPv4", "ICMPv6",
                                  "TCPv4", "TCPv6", "UDPv4", "UDPv6">>[i],
                      gap |-> 2,
                      rows |-> <<CounterRow(<<w_Opens>>, i)>>]],
     closed |-> "eot"]

\* two sections, the first with or without counter lines, the second with
\* one line of its own, each label followed by one or two line breaks
IsolationSources ==
    {[kind |-> "statistics",
      sections |-> <<[label |-> key, gap |-> g, rows |-> rows],
                     [label |-> "TCPv4", gap |-> h,
                      rows |-> <<CounterRow(<<w_Opens>>, 7)>>]>>,
      closed |-> "eot"] :
        key \in {"IPv4", "UDPv4"}, g \in {1, 2}, h \in {1, 2},
        rows \in SeqsUpTo({CounterRow(<<w_Active, w_Opens>>, 5)}, 1)}

InitRetrieval ==
    /\ src \in StatisticsSources \cup RoutingSources \cup {AllSections} \cup IsolationSources
    /\ cmd_output = SourceText(src)
    /\ NoCall

NextRetrieval ==
    \/ NextParse
    \/ Read_per_protocol_statistics
    \/ Read_netstat_routing_tables
    \/ Get_per_protocol_statistics
    \/ Get_netstat_routing_data
    \/ Get_netstat_ipv6_routing_data
    \/ Get_netstat_ipv4_routing_data
    \/ Get_netstat_interface_routing_data

\* the parsers and the retrieval functions of "netstat /s" and "netstat /r"
SpecRetrieval == InitRetrieval /\ [][NextRetrieval]_vars

\* "' operator for NAME filter."
OperatorFor(name) ==
    text_operator_for \o name \o <<" ", "f", "i", "l", "t", "e", "r", ".">>

RejectsOperator ==
    /\ call \in EqualityFilters \cup OrderingFilters
    /\ arg.operator \notin AllowedOperators(call)
    /\ result.kind = "WrongCommandLineParameter"

\* C24: the message raised by a filter builder for an invalid operator names
\* the filter that is built, by the NAME the class puts in its /FI string
\* (WINDOWTITLE, USERNAME, STATUS, SESSION, SERVICES, PID, MODULES, MEMUSAGE,
\* IMAGENAME, CPUTIME), and no other filter.
C24_MessageNamesTheFilter ==
    RejectsOperator =>
        /\ Contains(result.msg, OperatorFor(FilterName(call)))
        /\ \A class \in (EqualityFilters \cup OrderingFilters) \ {call} :
               ~Contains(result.msg, OperatorFor(FilterName(class)))

\* PIDProcessFilter rejects an operator: the message is about IMAGENAME
C24_Witness ==
    /\ RejectsOperator
    /\ call = "PIDProcessFilter"
    /\ Contains(result.msg, OperatorFor(w_IMAGENAME))
    /\ ~Contains(result.msg, OperatorFor(w_PID))

\* every builder but PIDProcessFilter names its own filter
C24_ExceptPID ==
    (RejectsOperator /\ call # "PIDProcessFilter") =>
        /\ Contains(result.msg, OperatorFor(FilterName(call)))
        /\ \A class \in (EqualityFilters \cup OrderingFilters) \ {call} :
               ~Contains(result.msg, OperatorFor(FilterName(class)))

(***************************************************************************)
(* Properties of the retrieval functions                                   *)
(***************************************************************************)
\* the section get_per_protocol_statistics reads for a protocol
SelectedKey(protocol) ==
    CASE protocol = py_str(w_TCP) -> "TCPv4"
      [] protocol = py_str(w_TCPv6) -> "TCPv6"
      [] protocol = py_str(w_UDP) -> "UDPv4"
      [] protocol = py_str(w_UDPv6) -> "UDPv6"
      [] protocol = py_str(w_IP) -> "IPv4"
      [] protocol = py_str(w_IPv6) -> "IPv6"
      [] protocol = py_str(w_ICMP) -> "ICMPv4"
      [] protocol = py_str(w_ICMPv6) -> "ICMPv6"

Spawns == {i \in 1..Len(events) : events[i] = "spawn netstat"}

SelectsSection == call = "get_per_protocol_statistics" /\ arg \in Protocols

\* section k of the output is the selected one, printed with counter lines
SelectedPrinted(k) ==
    /\ k \in 1..Len(src.sections)
    /\ src.sections[k].label = SelectedKey(arg)
    /\ \A j \in 1..(k - 1) : src.sections[j].label # SelectedKey(arg)
    /\ Len(src.sections[k].rows) >= 1

SelectedMissing ==
    ~Contains(cmd_output, RequestedSection[ParserOf(SelectedKey(arg))].label)

AllOfStatistics ==
    \/ call = "read_per_protocol_statistics"
    \/ call = "get_per_protocol_statistics" /\ arg = None

AllOfRouting == call \in {"read_netstat_routing_tables", "get_netstat_routing_data"}

StatisticsLabels ==
    {label_ipv4, label_ipv6, label_icmpv4, label_icmpv6, label_tcp_ipv4, label_tcp_ipv6,
     label_udp_ipv4, label_udp_ipv6}

RoutingLabels == {label_interface_list, label_ipv4_route_table, label_ipv6_route_table}

\* a mapping of exactly these keys, each to a table, when no label is missing
\* from the text; NetstatOutputError and no mapping when one is
AllOrNothing(keys, labels) ==
    /\ result.kind \in {"dict", "NetstatOutputError"}
    /\ result.kind = "dict" =>
           /\ DOMAIN result = keys \cup {"kind"}
           /\ \A key \in keys : result[key].kind \in {"DataFrame", "dict"}
           /\ \A label \in labels : Contains(cmd_output, label)
    /\ (\E label \in labels : ~Contains(cmd_output, label)) =>
           result.kind = "NetstatOutputError"

\* C14: read_per_protocol_statistics returns a mapping of exactly the keys
\* IPv4, IPv6, ICMPv4, ICMPv6, TCPv4, TCPv6, UDPv4, UDPv6, and
\* read_netstat_routing_tables one of exactly interface_table,
\* ipv4_routing_table, ipv6_routing_table, only when every section parses;
\* when a section is missing the call raises NetstatOutputError and returns
\* no mapping, not even of the sections that are there.
C14_AllOrNothing ==
    /\ AllOfStatistics =>
           AllOrNothing({"IPv4", "IPv6", "ICMPv4", "ICMPv6", "TCPv4", "TCPv6", "UDPv4", "UDPv6"},
                        StatisticsLabels)
    /\ AllOfRouting =>
           AllOrNothing({"interface_table", "ipv4_routing_table", "ipv6_routing_table"},
                        RoutingLabels)

\* a routing output with the interface list and the IPv4 table and no IPv6
\* table: no mapping
C14_Witness ==
    /\ call = "read_netstat_routing_tables"
    /\ src.kind = "routing"
    /\ src.interfaces /\ src.ipv4 /\ ~src.ipv6
    /\ result.kind = "NetstatOutputError"

\* the outputs in full: both mappings are returned
C14_Complete ==
    \/ AllOfStatistics /\ src = AllSections /\ result.kind = "dict"
    \/ AllOfRouting /\ src.kind = "routing" /\ result.kind = "dict"

(***************************************************************************)
(* Properties of the tables of the statistics parsers                      *)
(***************************************************************************)
StatisticsParsers == {ParserOf(key) : key \in StatisticsKeys}

ReturnsStatistics == call \in StatisticsParsers /\ result.kind = "DataFrame"

\* C16: no two rows of a table returned by a statistics parser have the same
\* Header, whatever the text, a section with the same header text on two
\* lines included.
C16_HeaderIsUnique ==
    ReturnsStatistics =>
        \A i, j \in 1..Len(result.rows) :
            result.rows[i][1] = result.rows[j][1] => i = j

\* a section with the same header text on two lines, parsed
C16_Witness ==
    /\ ReturnsStatistics
    /\ ReadsSection(1)
    /\ Len(src.sections[1].rows) = 2
    /\ src.sections[1].rows[1].header = src.sections[1].rows[2].header
    /\ Len(result.rows) = 2

\* the rows of the section a statistics parser is for: the first section
\* under its label
OwnRows ==
    UNION {Range(TableOf(src.sections[k]).rows) :
             k \in {j \in 1..Len(src.sections) : ReadsSection(j)}}

\* a label occurs inside another label
LabelInsideLabel ==
    \E a, b \in StatisticsKeys : a # b /\ Contains(SectionLabel(b), SectionLabel(a))

\* C20: every row a statistics parser returns comes from a line of its own
\* section, between the first occurrence of its label and the blank line or
\* end of text closing that section; lines of another section give no rows,
\* also when the parser's own section has no counter lines, and no label
\* matches inside the label of another section.
C20_SectionIsolation ==
    /\ ~LabelInsideLabel
    /\ (ReturnsStatistics /\ src.kind = "statistics") =>
           \A i \in 1..Len(result.rows) : result.rows[i] \in OwnRows

\* "IPv4 Statistics" with no counter line, then the TCP section: the row of
\* the TCP section is returned by read_ipv4_statistics
C20_Witness ==
    /\ call = "read_ipv4_statistics"
    /\ src \in IsolationSources
    /\ src.sections[1].label = "IPv4"
    /\ src.sections[1].rows = <<>>
    /\ result = TableOf([src.sections[2] EXCEPT !.label = "IPv4"])

\* a section with counter lines of its own is read alone
C20_WithOwnLines ==
    (ReturnsStatistics /\ src.kind = "statistics"
        /\ \A k \in 1..Len(src.sections) : ReadsSection(k) => src.sections[k].rows # <<>>)
    => \A i \in 1..Len(result.rows) : result.rows[i] \in OwnRows

(***************************************************************************)
(* Properties of the IPv6 routing table                                    *)
(***************************************************************************)
ReadsIPv6Routes == call = "read_ipv6_routing_table" /\ src.kind = "routing" /\ src.ipv6

\* the route printed under "Active Routes:" by RoutingText
IPv6ActiveRoutes ==
    DataFrame(<< <<(<<"1">>), <<"3", "3", "1">>, <<":", ":", "1", "/", "1", "2", "8">>,
                   text_on_link>> >>,
              <<"If", "Metric", "Network Destination", "Gateway">>)

\* C17: on a text with the "IPv6 Route Table" label, the rule line and an
\* "Active Routes:" sub-label followed by route rows, read_ipv6_routing_table
\* returns a mapping with the route rows as active_routes and an empty
\* persistent_routes table, whether or not "Persistent Routes:" follows.
C17_ActiveRoutesSuffice ==
    ReadsIPv6Routes =>
        /\ result.kind = "dict"
        /\ result.active_routes = IPv6ActiveRoutes
        /\ result.persistent_routes = DataFrame(<<>>, <<>>)

\* the IPv6 section ends after its active routes
C17_Witness ==
    /\ ReadsIPv6Routes
    /\ ~src.ipv6_persistent
    /\ result.kind = "NetstatOutputError"

\* with "Persistent Routes:" printed the mapping is returned
C17_WithPersistent ==
    (ReadsIPv6Routes /\ src.ipv6_persistent) =>
        /\ result.kind = "dict"
        /\ result.active_routes = IPv6ActiveRoutes
        /\ result.persistent_routes = DataFrame(<<>>, <<>>)

(***************************************************************************)
(* read_ethernet_statistics, get_ethernet_statistics                       *)
(***************************************************************************)
w_Received == <<"R", "e", "c", "e", "i", "v", "e", "d">>
w_Sent == <<"S", "e", "n", "t">>
w_Bytes == <<"B", "y", "t", "e", "s">>
w_Unknown == <<"U", "n", "k", "n", "o", "w", "n">>
w_protocols == <<"p", "r", "o", "t", "o", "c", "o", "l", "s">>
w_Non_unicast == <<"N", "o", "n", "-", "u", "n", "i", "c", "a", "s", "t">>
w_packets == <<"p", "a", "c", "k", "e", "t", "s">>

\* ([\w-]+(?: [\w-]+)*)\s{2,}(\d+)\s{2,}(\d*)
ethernet_row_re ==
    Cat(<<Group(1, Cat(<<Plus(In(WordChar \cup {"-"})),
                         Star(Cat(<<Lit(SP), Plus(In(WordChar \cup {"-"}))>>))>>)),
          Rep(In(SpaceChar), 2, Unbounded),
          Group(2, Plus(In(Digit))),
          Rep(In(SpaceChar), 2, Unbounded),
          Group(3, Star(In(Digit)))>>)

\* the loop over the found rows: int of the first counter, int of the
\* second or 0 when it is the empty string
ethernet_rows(interfaces) ==
    [i \in 1..Len(interfaces) |->
        <<interfaces[i][1], int(interfaces[i][2]),
          IF interfaces[i][3] # <<>> THEN int(interfaces[i][3]) ELSE 0>>]

read_ethernet_statistics(out) ==
    DataFrame(ethernet_rows(FindAll(ethernet_row_re, 3, out)),
              <<"Interface", "Received", "Sent">>)

(***************************************************************************)
(* The output of "netstat -e", and texts that are not netstat's            *)
(***************************************************************************)
MaxCounters == 3

\* a counter line: the name and one or two counters
EthernetLines ==
    {[name |-> <<w_Bytes>>, counters |-> <<15, 27>>],
     [name |-> <<w_Non_unicast, w_packets>>, counters |-> <<4, 0>>],
     [name |-> <<w_Unknown, w_protocols>>, counters |-> <<0>>]}

EthernetLine(line) ==
    Phrase(line.name) \o Spaces(3) \o Decimal(line.counters[1])
    \o (IF Len(line.counters) = 2 THEN Spaces(2) \o Decimal(line.counters[2]) ELSE <<>>)

\* "Interface Statistics", the line of column titles, the counter lines;
\* the text ends with a line break or with the last counter line
EthernetText(s) ==
    Phrase(<<w_Interface, w_Statistics>>) \o CRLF \o CRLF
    \o Spaces(2) \o w_Received \o Spaces(2) \o w_Sent \o CRLF \o CRLF
    \o Flatten([i \in 1..Len(s.lines) |->
                  (IF i = 1 THEN <<>> ELSE CRLF) \o EthernetLine(s.lines[i])])
    \o (IF s.closed = "crlf" THEN CRLF ELSE <<>>)

EthernetSources ==
    [kind : {"ethernet"}, lines : SeqsUpTo(EthernetLines, MaxCounters),
     closed : {"crlf", "eot"}]

\* texts of no netstat command: nothing, one line, two lines of words
ForeignSources ==
    {[kind |-> "foreign", lines |-> <<>>],
     [kind |-> "foreign", lines |-> <<Phrase(<<w_Active, w_Connections>>)>>],
     [kind |-> "foreign",
      lines |-> <<Phrase(<<w_Interface, w_Statistics>>),
                  Spaces(2) \o w_Received \o Spaces(2) \o w_Sent>>]}

ForeignText(s) == Flatten([i \in 1..Len(s.lines) |-> s.lines[i] \o CRLF])

Read_ethernet_statistics ==
    Parse("read_ethernet_statistics", read_ethernet_statistics(cmd_output))

Get_ethernet_statistics ==
    Retrieve("get_ethernet_statistics", "", "ethernet", read_ethernet_statistics(cmd_output))

InitEthernet ==
    /\ src \in EthernetSources \cup ForeignSources
    /\ cmd_output = (IF src.kind = "ethernet" THEN EthernetText(src) ELSE ForeignText(src))
    /\ NoCall

NextEthernet ==
    \/ Discard
    \/ Read_ethernet_statistics
    \/ Get_ethernet_statistics
    \/ Read_netstat_connections_list

SpecEthernet == InitEthernet /\ [][NextEthernet]_vars

(***************************************************************************)
(* Properties of the parsers without a section label                       *)
(***************************************************************************)
ReadsForeignText ==
    /\ src.kind = "foreign"
    /\ call \in {"read_ethernet_statistics", "read_netstat_connections_list"}

\* C18: read_ethernet_statistics and read_netstat_connections_list, handed
\* a text that is not the output of their command (no header or counter
\* rows to recognise, or fewer than two non-empty lines), raise
\* NetstatOutputError: they return no empty table and raise nothing else.
C18_ForeignTextRaises ==
    ReadsForeignText => result.kind = "NetstatOutputError"

\* the empty text, handed to read_ethernet_statistics: an empty table
C18_Witness ==
    /\ ReadsForeignText
    /\ call = "read_ethernet_statistics"
    /\ src.lines = <<>>
    /\ result = DataFrame(<<>>, <<"Interface", "Received", "Sent">>)

\* what the two parsers do with such texts: an empty table, or the
\* IndexError of lines[1]
C18_EmptyTableOrIndexError ==
    ReadsForeignText =>
        IF call = "read_netstat_connections_list" /\ Len(src.lines) < 2
        THEN result.kind = "IndexError"
        ELSE result.kind = "DataFrame" /\ result.rows = <<>>

ReadsEthernet ==
    /\ src.kind = "ethernet"
    /\ call \in {"read_ethernet_statistics", "get_ethernet_statistics"}

\* the row of a counter line
EthernetRow(line) ==
    <<Phrase(line.name), line.counters[1],
      IF Len(line.counters) = 2 THEN line.counters[2] ELSE 0>>

EthernetTable(lines) ==
    DataFrame([i \in 1..Len(lines) |-> EthernetRow(lines[i])],
              <<"Interface", "Received", "Sent">>)

\* C19: read_ethernet_statistics returns one row per counter line, in the
\* order of the text, with Received the first counter and Sent the second,
\* or 0 when the line has no second counter; so for every counter line,
\* the last line of the text included.
C19_OneRowPerCounterLine ==
    ReadsEthernet => result = EthernetTable(src.lines)

\* the text ends with a counter line that has one counter
LastLineOpen ==
    /\ src.closed = "eot"
    /\ Len(src.lines) >= 1
    /\ Len(src.lines[Len(src.lines)].counters) = 1

\* that line is not in the table
C19_Witness ==
    /\ ReadsEthernet
    /\ LastLineOpen
    /\ Len(src.lines) = 2
    /\ result = EthernetTable(SubSeq(src.lines, 1, 1))

\* every other text is read as printed
C19_ExceptLastLineOpen ==
    ReadsEthernet =>
        result = EthernetTable(IF LastLineOpen
                               THEN SubSeq(src.lines, 1, Len(src.lines) - 1)
                               ELSE src.lines)

(***************************************************************************)
(* Safety of the ports handed out                                          *)
(***************************************************************************)
\* C22: a port returned by get_localhost_minimum_free_port, whatever
\* ports_to_check, is one of the free ports computed in the call: it lies in
\* 1024..49150 and is not a busy port; a candidate outside that range is
\* not returned even when nothing uses it, and with no free port at all the
\* call raises instead of returning a port.
C22_ReturnedPortIsFree ==
    /\ (MinimumAsked /\ result.kind = "int") =>
           \A busy \in {busy_ports_of(ParsedTable)} :
               /\ result.v \in free_ports_of(busy).items
               /\ 1024 <= result.v /\ result.v <= 49150
               /\ result.v \notin busy.items
    /\ \A ports_to_check \in PortsToCheck :
           minimum_free_port(ports_to_check, {}).kind = "ValueError"

\* 49151 is asked for and used by nothing: the least free port is returned
C22_Witness ==
    /\ MinimumAsked
    /\ arg = py_int(49151)
    /\ 49151 \notin BusyPorts
    /\ 1024 \in BusyPorts
    /\ result = [kind |-> "int", v |-> 1025]

\* the local ports of the rows of a listing, whatever their address
LocalPortsOf(table) == {LocalPortOf(table, i) : i \in 1..Len(table.rows)}

\* C23: no port returned by get_localhost_free_ports, and so none returned
\* by get_localhost_minimum_free_port, is the local port of a row of the
\* connection listing of the same call, whatever the local address of the
\* row (127.0.0.1, 0.0.0.0, an interface address, [::], [::1]) and whatever
\* its protocol.
C23_NoListedPortIsFree ==
    /\ (call = "get_localhost_free_ports" /\ result.kind = "list") =>
           \A used \in {LocalPortsOf(ParsedTable)} : result.items \cap used = {}
    /\ (MinimumAsked /\ result.kind = "int") =>
           result.v \notin LocalPortsOf(ParsedTable)

\* a row of the listing has the local address 0.0.0.0:1040, and 1040 is
\* among the free ports
C23_Witness ==
    /\ call = "get_localhost_free_ports"
    /\ \E i \in 1..Len(ParsedTable.rows) :
           ParsedTable.rows[i][Column(ParsedTable, h_LocalAddress)]
               = text_any_ipv4 \o <<":", "1", "0", "4", "0">>
    /\ 1040 \in result.items

\* the ports of the rows bound to 127.0.0.1 or [::] are not handed out
C23_NoLoopbackPortIsFree ==
    (call = "get_localhost_free_ports" /\ result.kind = "list") =>
        \A table \in {ParsedTable} :
            \A i \in LoopbackRows(table) : LocalPortOf(table, i) \notin result.items

(***************************************************************************)
(* Properties of the rows of the connection listing                        *)
(***************************************************************************)
ListsConnections ==
    /\ call = "read_netstat_connections_list"
    /\ src.kind = "connections"
    /\ src.headers = HeaderOrder

\* the row of a printed connection: its fields, then the component and the
\* executable of the lines under it when the table has these columns
ConnectionRow(row, headers, extras) ==
    [i \in 1..Len(headers) |-> Field(row, headers[i])]
    \o (IF h_Component \in extras THEN <<row.component>> ELSE <<>>)
    \o (IF h_Executable \in extras THEN <<row.executable>> ELSE <<>>)

\* the extra columns that stay: those with a value on some row
ExtrasOf(rows) ==
    (IF \E i \in 1..Len(rows) : rows[i].component # <<>> THEN {h_Component} ELSE {})
    \cup (IF \E i \in 1..Len(rows) : rows[i].executable # <<>> THEN {h_Executable} ELSE {})

ConnectionTable(rows, headers) ==
    DataFrame([i \in 1..Len(rows) |-> ConnectionRow(rows[i], headers, ExtrasOf(rows))],
              headers
              \o (IF h_Component \in ExtrasOf(rows) THEN <<h_Component>> ELSE <<>>)
              \o (IF h_Executable \in ExtrasOf(rows) THEN <<h_Executable>> ELSE <<>>))

\* C21: a listing of K data rows, each field matching the pattern of its
\* column, with or without a component line and an executable line under a
\* row, is returned as a table of K rows in the order of the text, the first
\* and the last row included, each with the component and executable of the
\* lines that follow it.
C21_EveryRowReturned ==
    ListsConnections => result = ConnectionTable(src.rows, src.headers)

\* three rows printed without lines under them, two returned
C21_Witness ==
    /\ ListsConnections
    /\ Len(src.rows) = 3
    /\ ExtrasOf(src.rows) = {}
    /\ result = ConnectionTable(SubSeq(src.rows, 1, 2), src.headers)

\* without lines under the rows, every row but the last is returned
C21_AllButTheLast ==
    (ListsConnections /\ ExtrasOf(src.rows) = {}) =>
        result = ConnectionTable(SubSeq(src.rows, 1, Len(src.rows) - 1), src.headers)

(***************************************************************************)
(* A caller parsing a text again                                           *)
(*                                                                         *)
(* The caller keeps one call with its result, goes on with other parsers   *)
(* and builders on this text and on others, and makes the call again.      *)
(***************************************************************************)
\* how many calls after the noted one are counted
MaxBetween == 1

TextOf(s) == IF s.kind = "connections" THEN ConnectionsText(s) ELSE SourceText(s)

ReparseSources ==
    {AllSections, ScenarioSource,
     [kind |-> "routing", interfaces |-> TRUE, ipv4 |-> TRUE, ipv6 |-> TRUE,
      ipv6_persistent |-> TRUE],
     [kind |-> "connections", headers |-> HeaderOrder,
      rows |-> [i \in 1..2 |->
                  Connection(text_loopback, 1030, 123, w_RpcSs, w_svchost_exe)]]}

ParserNames ==
    {"read_tcp_ipv6_statistics", "read_tcp_ipv4_statistics", "read_udp_ipv6_statistics",
     "read_udp_ipv4_statistics", "read_icmpv6_statistics", "read_icmpv4_statistics",
     "read_ipv6_statistics", "read_ipv4_statistics", "read_ipv6_routing_table",
     "read_ipv4_routing_table", "read_interface_routing_table",
     "read_netstat_connections_list", "read_per_protocol_statistics",
     "read_netstat_routing_tables"}

\* the caller keeps the result of a parser
Note ==
    /\ call \in ParserNames
    /\ noted' = [kind |-> "call", call |-> call, src |-> src, result |-> result,
                 events |-> events, since |-> 0]
    /\ call' = ""
    /\ arg' = ""
    /\ result' = [kind |-> "none"]
    /\ events' = <<>>
    /\ UNCHANGED <<src, cmd_output>>

\* the caller drops a result
Drop ==
    /\ call # ""
    /\ noted' = IF noted.kind = "call" /\ noted.since < MaxBetween
                THEN [noted EXCEPT !.since = @ + 1]
                ELSE noted
    /\ call' = ""
    /\ arg' = ""
    /\ result' = [kind |-> "none"]
    /\ events' = <<>>
    /\ UNCHANGED <<src, cmd_output>>

\* the caller turns to another text
Feed ==
    /\ call = ""
    /\ src' \in ReparseSources \ {src}
    /\ cmd_output' = TextOf(src')
    /\ UNCHANGED <<call, arg, result, events, noted>>

InitReparse ==
    /\ src \in ReparseSources
    /\ cmd_output = TextOf(src)
    /\ NoCall

NextReparse ==
    \/ Note
    \/ Drop
    \/ Feed
    \/ Read_tcp_ipv6_statistics
    \/ Read_tcp_ipv4_statistics
    \/ Read_udp_ipv6_statistics
    \/ Read_udp_ipv4_statistics
    \/ Read_icmpv6_statistics
    \/ Read_icmpv4_statistics
    \/ Read_ipv6_statistics
    \/ Read_ipv4_statistics
    \/ Read_ipv6_routing_table
    \/ Read_ipv4_routing_table
    \/ Read_interface_routing_table
    \/ Read_netstat_connections_list
    \/ Read_per_protocol_statistics
    \/ Read_netstat_routing_tables
    \/ New_UserContext

SpecReparse == InitReparse /\ [][NextReparse]_vars

\* the call at hand is the noted one, on the noted text
ParsedAgain ==
    /\ noted.kind = "call"
    /\ call = noted.call
    /\ src = noted.src

====
